---- MODULE Spec2Model ----
(***************************************************************************)
(* rpi-bot: the command templating engine (createCommand), the           *)
(* dispatcher loop (MessagingPoller) that ties an adapter's update stream  *)
(* to the command table and the executor, and the receive loops of the     *)
(* socket adapter (signal.go) and of the polling adapter (telegram.go)     *)
(* with cancellation.                                                      *)
(*                                                                         *)
(* Strings are sequences of elements.  Every character that the formatter  *)
(* or a tokenizer looks at ("%", the verb letters, the space) is an        *)
(* element of its own; a run of other characters that comes from one       *)
(* string constant of the source is kept as one element.  Concatenating    *)
(* the elements gives the Go string, so two equal sequences denote equal   *)
(* Go strings.                                                             *)
(***************************************************************************)
EXTENDS Integers, Sequences, FiniteSets, TLC

VARIABLES
    c,          \* createCommand: the command definition passed in
    m,          \* createCommand: the message passed in
    ret,        \* createCommand: the returned (string, error)
    cpc,        \* createCommand: "call" before the call, "done" after it
    ch,         \* the adapter's output channel (sr.GetUpdates), a FIFO
    closed,     \* the channel has been closed by the receive loop
    pc,         \* MessagingPoller: "range", "exec", "send" or "done"
    update,     \* MessagingPoller: the loop variable
    fmtCommand, \* MessagingPoller: the rendered command
    msg,        \* MessagingPoller: the reply text
    taken,      \* history: the messages the poller received, in order
    execLog,    \* history: the execCommand calls with their results
    sendLog,    \* history: the SendMessage calls with their results
    provider,   \* MessagingFactory: "signal", "telegram", or "none"
    scenario,   \* which traffic the transport carries: "mixed" or "burst"
    ctxDone,    \* the context has been cancelled
    connClosed, \* conn.Close() / StopReceivingUpdates() has been called
    loc,        \* messageReceiver: "select", "decode", "send", "exited"
    pending,    \* messageReceiver: the message m about to be sent on ch
    decErr,     \* json.Decoder: the error the decoder keeps, or "none"
    frames,     \* history: what the transport handed over, in order
    classified, \* history: the messages the loop decided to deliver
    exitWhy,    \* history: why the receive loop returned
    pin,        \* parseMessage: the rpcMessage passed in
    pout,       \* parseMessage: the returned (Message, error)
    ppc,        \* parseMessage: "idle", "call" before the call, "done" after
    pfn,        \* which parser is called: "signal" or "telegram"
    nextID,     \* signalReceiver.nextID
    mu,         \* signalReceiver.mu: the caller that holds it, or 0
    spc,        \* SendMessage, per caller: its position in the call
    sid,        \* getNextID, per caller: the local variable id
    sent,       \* per caller: the SendMessage calls it has started
    issued,     \* history: the ids read inside getNextID, in order
    encLog,     \* history: the results enc.Encode has returned
    wire,       \* history: the ID of the request written to the socket last
    hcfg,       \* cfg.Httpd.AuthToken and the HTTP_TOKEN_AUTH variable
    hsrv,       \* HttpServer: commandHandler.authToken and the gate's token
    hpc,        \* the HTTP server's position: "boot", "listen", "next",
                \* "exec", "write" or "done" ("off" without a server)
    hreq,       \* the request being served
    hw,         \* the http.ResponseWriter of the request
    hfull,      \* ServeHTTP: fullCmd
    hres,       \* ServeHTTP: what execCommand returned
    hlog,       \* history: the calls of the wrapped handler, of
                \* createCommand and of the executor
    hlife       \* HttpServer: where ListenAndServe and the goroutine that
                \* calls Shutdown are

vars == <<c, m, ret, cpc, ch, closed, pc, update, fmtCommand,
          msg, taken, execLog, sendLog, provider, scenario, ctxDone,
          connClosed, loc, pending, decErr, frames, classified, exitWhy,
          pin, pout, ppc, pfn, nextID, mu, spc, sid, sent, issued, encLog,
          wire, hcfg, hsrv, hpc, hreq, hw, hfull, hres, hlog, hlife>>

cmdVars  == <<c, m, ret, cpc>>
parseVars == <<pin, pout, ppc, pfn>>
idVars == <<nextID, mu, spc, sid, sent, issued, encLog, wire>>
httpVars == <<hcfg, hsrv, hpc, hreq, hw, hfull, hres, hlog, hlife>>
auxVars == <<parseVars, idVars, httpVars>>
pollVars == <<ch, closed, pc, update, fmtCommand, msg, taken,
              execLog, sendLog>>
recvVars == <<provider, scenario, ctxDone, connClosed, loc, pending,
              decErr, frames, classified, exitWhy>>

-----------------------------------------------------------------------------
(* Bounds of the model *)

MaxTplLen == 4
MaxArgs == 2
MaxMsgs == 2

(* the objects or updates a transport hands over in a mixed run *)
MaxFrames == 2

(* the length of a message body given to parseMessage *)
MaxBodyLen == 4

(* the goroutines that call SendMessage at once, and the calls of each *)
MaxCallers == 2
MaxSends == 2

(* The characters templates are built from: the percent sign, the          *)
(* placeholder verb, another verb letter and the space (a formatter flag). *)
Chars == {"%", "s", "d", " "}

RECURSIVE SeqsUpTo(_, _)
SeqsUpTo(S, n) ==
    IF n = 0 THEN {<<>>}
    ELSE LET shorter == SeqsUpTo(S, n - 1)
         IN  shorter \cup {Append(s, x) : s \in {t \in shorter : Len(t) = n - 1}, x \in S}

-----------------------------------------------------------------------------
(* Values handed to the formatter: a Go string, an int or an error. *)

StrArg(s) == [type |-> "string", val |-> s]
IntArg(n) == [type |-> "int", val |-> n]
ErrArg(e) == [type |-> "error", val |-> e]

nil == <<>>

Digits == <<"0", "1", "2", "3", "4", "5", "6", "7", "8", "9">>

RECURSIVE Itoa(_)
Itoa(n) ==
    IF n < 10 THEN <<Digits[n + 1]>>
    ELSE Itoa(n \div 10) \o <<Digits[(n % 10) + 1]>>

-----------------------------------------------------------------------------
(* fmt.Sprintf, restricted to formats whose characters after a "%" are     *)
(* the space flag, "%", or a verb letter: no width, precision or argument  *)
(* index.  A format is scanned left to right; argNum is the 1-based index  *)
(* of the next operand.                                                    *)

Flags == {" "}

RECURSIVE SkipFlags(_, _)
SkipFlags(format, i) ==
    IF i <= Len(format) /\ format[i] \in Flags THEN SkipFlags(format, i + 1) ELSE i

(* The operand printed with %v. *)
PrintValue(arg, space) ==
    CASE arg.type = "string" -> arg.val
      [] arg.type = "error"  -> arg.val
      [] arg.type = "int"    -> (IF space THEN <<" ">> ELSE <<>>) \o Itoa(arg.val)

BadVerb(arg, verb, space) ==
    <<"%!", verb, "(", arg.type, "=">> \o PrintValue(arg, space) \o <<")">>

PrintArg(arg, verb, space) ==
    CASE arg.type = "string" ->
            IF verb \in {"s", "v"} THEN arg.val ELSE BadVerb(arg, verb, space)
      [] arg.type = "int" ->
            IF verb \in {"d", "v"} THEN PrintValue(arg, space)
            ELSE BadVerb(arg, verb, space)
      [] arg.type = "error" /\ verb \in {"s", "v"} -> arg.val

MissingArg(verb) == <<"%!", verb, "(MISSING)">>

NoVerbString == <<"%!(NOVERB)">>

RECURSIVE ExtraList(_, _)
ExtraList(a, argNum) ==
    IF argNum > Len(a) THEN <<>>
    ELSE <<a[argNum].type, "=">> \o PrintValue(a[argNum], FALSE)
         \o (IF argNum < Len(a) THEN <<", ">> ELSE <<>>)
         \o ExtraList(a, argNum + 1)

Extra(a, argNum) == <<"%!(EXTRA ">> \o ExtraList(a, argNum) \o <<")">>

RECURSIVE doPrintf(_, _, _, _)
doPrintf(format, a, i, argNum) ==
    IF i > Len(format) THEN
        IF argNum <= Len(a) THEN Extra(a, argNum) ELSE <<>>
    ELSE IF format[i] # "%" THEN
        <<format[i]>> \o doPrintf(format, a, i + 1, argNum)
    ELSE
        LET j == SkipFlags(format, i + 1)
            space == j > i + 1
        IN  IF j > Len(format) THEN
                NoVerbString \o doPrintf(format, a, j, argNum)
            ELSE IF format[j] = "%" THEN
                <<"%">> \o doPrintf(format, a, j + 1, argNum)
            ELSE IF argNum > Len(a) THEN
                MissingArg(format[j]) \o doPrintf(format, a, j + 1, argNum)
            ELSE
                PrintArg(a[argNum], format[j], space)
                    \o doPrintf(format, a, j + 1, argNum + 1)

Sprintf(format, a) == doPrintf(format, a, 1, 1)

Errorf(format, a) == Sprintf(format, a)

(* strings.Count(s, substr) for a non-empty substr: the number of          *)
(* non-overlapping instances, found left to right.                         *)
RECURSIVE CountFrom(_, _, _)
CountFrom(s, substr, i) ==
    IF i + Len(substr) - 1 > Len(s) THEN 0
    ELSE IF SubSeq(s, i, i + Len(substr) - 1) = substr
         THEN 1 + CountFrom(s, substr, i + Len(substr))
         ELSE CountFrom(s, substr, i + 1)

Count(s, substr) == CountFrom(s, substr, 1)

-----------------------------------------------------------------------------
(* messaging.Message and the configuration's Command *)

Command == "Command"
Response == "Response"
Chat == "Chat"
Update == "Update"

Message(type, command, args, source) ==
    [Type |-> type, Command |-> command, Args |-> args, Raw |-> <<>>,
     Text |-> <<>>, ChatID |-> 0, Source |-> source]

CommandDef(template, args) == [Command |-> template, Args |-> args]

-----------------------------------------------------------------------------
(* createCommand: the (string, error) it returns, error nil being <<>>. *)

createCommand_PlaceholdersFirst(cdef, message) ==
    LET placeholderCount == Count(cdef.Command, <<"%", "s">>)
    IN  IF placeholderCount # Len(cdef.Args) THEN
            [str |-> <<>>,
             err |-> Errorf(<<"mismatch between placeholders (", "%", "%", "s", ")=",
                              "%", "d", " and number of args=", "%", "d">>,
                            <<IntArg(placeholderCount), IntArg(Len(cdef.Args))>>)]
        ELSE IF Len(message.Args) # Len(cdef.Args) THEN
            [str |-> <<>>,
             err |-> Errorf(<<"mismatch between command definition args=", "%", "d",
                              " and number of args=", "%", "d">>,
                            <<IntArg(Len(cdef.Args)), IntArg(Len(message.Args))>>)]
        ELSE IF Len(cdef.Args) = 0 THEN
            [str |-> cdef.Command, err |-> nil]
        ELSE
            [str |-> Sprintf(cdef.Command,
                             [i \in 1..Len(message.Args) |-> StrArg(message.Args[i])]),
             err |-> nil]

createCommand_NoPlaceholderCheck(cdef, message) ==
    IF Len(message.Args) # Len(cdef.Args) THEN
        [str |-> <<>>,
         err |-> Errorf(<<"mismatch between command definition args=", "%", "d",
                          " and number of args=", "%", "d">>,
                        <<IntArg(Len(cdef.Args)), IntArg(Len(message.Args))>>)]
    ELSE IF Len(cdef.Args) = 0 THEN
        [str |-> cdef.Command, err |-> nil]
    ELSE
        [str |-> Sprintf(cdef.Command,
                         [i \in 1..Len(message.Args) |-> StrArg(message.Args[i])]),
         err |-> nil]

createCommand_AlwaysSprintf(cdef, message) ==
    IF Len(message.Args) # Len(cdef.Args) THEN
        [str |-> <<>>,
         err |-> Errorf(<<"mismatch between command definition args=", "%", "d",
                          " and number of args=", "%", "d">>,
                        <<IntArg(Len(cdef.Args)), IntArg(Len(message.Args))>>)]
    ELSE
        LET placeholderCount == Count(cdef.Command, <<"%", "s">>)
        IN  IF placeholderCount # Len(cdef.Args) THEN
                [str |-> <<>>,
                 err |-> Errorf(<<"mismatch between placeholders (", "%", "%", "s", ")=",
                                  "%", "d", " and number of args=", "%", "d">>,
                                <<IntArg(placeholderCount), IntArg(Len(cdef.Args))>>)]
            ELSE
                [str |-> Sprintf(cdef.Command,
                                 [i \in 1..Len(message.Args) |-> StrArg(message.Args[i])]),
                 err |-> nil]

createCommand(cdef, message) ==
    IF Len(message.Args) # Len(cdef.Args) THEN
        [str |-> <<>>,
         err |-> Errorf(<<"mismatch between command definition args=", "%", "d",
                          " and number of args=", "%", "d">>,
                        <<IntArg(Len(cdef.Args)), IntArg(Len(message.Args))>>)]
    ELSE
        LET placeholderCount == Count(cdef.Command, <<"%", "s">>)
        IN  IF placeholderCount # Len(cdef.Args) THEN
                [str |-> <<>>,
                 err |-> Errorf(<<"mismatch between placeholders (", "%", "%", "s", ")=",
                                  "%", "d", " and number of args=", "%", "d">>,
                                <<IntArg(placeholderCount), IntArg(Len(cdef.Args))>>)]
            ELSE IF Len(cdef.Args) = 0 THEN
                [str |-> cdef.Command, err |-> nil]
            ELSE
                [str |-> Sprintf(cdef.Command,
                                 [i \in 1..Len(message.Args) |-> StrArg(message.Args[i])]),
                 err |-> nil]

-----------------------------------------------------------------------------
(* The inputs createCommand is applied to. *)

Templates == SeqsUpTo(Chars, MaxTplLen)

(* Argument values: a plain word, and one that itself reads "%s". *)
ArgVals == {<<"d">>, <<"%", "s">>}

ArgLists == SeqsUpTo(ArgVals, MaxArgs)

ParamNames(n) == [i \in 1..n |-> <<"p">> \o Itoa(i)]

Definitions == {CommandDef(t, ParamNames(n)) : t \in Templates, n \in 0..MaxArgs}

NoRet == [str |-> <<>>, err |-> nil]

NoDef == CommandDef(<<>>, <<>>)

NoMessage == Message(Update, <<>>, <<>>, "")

-----------------------------------------------------------------------------
(* The dispatcher's collaborators: the command table, the update stream,   *)
(* the executor and the adapter's SendMessage.                             *)

ChanCap == 10

(* The command table of the tests, with the misconfigured definition of   *)
(* TestCreateCommand (a declared argument and no placeholder).            *)
commands ==
    (<<"testcmd">> :> CommandDef(<<"echo", " ", "%", "s">>, <<<<"arg1">>>>))
    @@ (<<"noargs">> :> CommandDef(<<"ls">>, <<>>))
    @@ (<<"fixed">> :> CommandDef(<<"fixed_command_with_args">>, <<<<"placeholder1">>>>))

Sources == {"+111", "+222"}

(* The messages an adapter may put on the stream. *)
PollMsgs ==
    {Message(Command, <<"testcmd">>, <<<<"hello">>>>, "+111"),
     Message(Command, <<"testcmd">>, <<>>, "+222"),
     Message(Command, <<"noargs">>, <<>>, "+222"),
     Message(Command, <<"fixed">>, <<<<"hello">>>>, "+111"),
     Message(Command, <<"unknown">>, <<>>, "+111"),
     Message(Chat, <<"noargs">>, <<>>, "+111"),
     Message(Response, <<>>, <<>>, ""),
     Message(Update, <<>>, <<>>, "")}

(* an executor that returns what the command printed along with its error *)
execCommand_OutputOnError(command) ==
    {[out |-> <<"partial">>, err |-> <<"exec error">>],
     [out |-> <<"ok">>, err |-> nil]}

(* executor.execCommand: ("", err) or (output, nil), as the process decides. *)
execCommand(command) ==
    {[out |-> <<>>, err |-> <<"exec error">>], [out |-> <<"ok">>, err |-> nil]}

(* What a SendMessage call can return. *)
SendResults == {nil, <<"send error">>}

-----------------------------------------------------------------------------
(* The receive loop's side of the channel. *)

Enqueue(mm) ==
    /\ ~closed
    /\ Len(taken) + Len(ch) < MaxMsgs
    /\ Len(ch) < ChanCap
    /\ ch' = Append(ch, mm)
    /\ UNCHANGED <<closed, pc, update, fmtCommand, msg, taken, execLog, sendLog,
                   cmdVars, recvVars, auxVars>>

CloseStream ==
    /\ ~closed
    /\ closed' = TRUE
    /\ UNCHANGED <<ch, pc, update, fmtCommand, msg, taken, execLog, sendLog,
                   cmdVars, recvVars, auxVars>>

-----------------------------------------------------------------------------
(* MessagingPoller *)

(* command, ok := commands[update.Command]: a missing key gives the zero   *)
(* Command and ok = false.                                                 *)
Lookup(table, name) ==
    IF name \in DOMAIN table
    THEN [command |-> table[name], ok |-> TRUE]
    ELSE [command |-> NoDef, ok |-> FALSE]

Dispatch_SilentOnUnknown(u) ==
    IF u.Type # Command THEN
        [pc |-> "range", msg |-> <<>>, fmtCommand |-> <<>>]
    ELSE
        LET l == Lookup(commands, u.Command)
        IN  IF ~l.ok THEN
                [pc |-> "range", msg |-> <<"Command not supported">>, fmtCommand |-> <<>>]
            ELSE
                LET r == createCommand(l.command, u)
                IN  IF r.err # nil THEN
                        [pc |-> "send",
                         msg |-> Sprintf(<<"Command formatting failed: ", "%", "v">>,
                                         <<ErrArg(r.err)>>),
                         fmtCommand |-> r.str]
                    ELSE
                        [pc |-> "exec", msg |-> <<>>, fmtCommand |-> r.str]

Dispatch_NoTypeCheck(u) ==
    LET l == Lookup(commands, u.Command)
    IN  IF ~l.ok THEN
            [pc |-> "send", msg |-> <<"Command not supported">>, fmtCommand |-> <<>>]
        ELSE
            LET r == createCommand(l.command, u)
            IN  IF r.err # nil THEN
                    [pc |-> "send",
                     msg |-> Sprintf(<<"Command formatting failed: ", "%", "v">>,
                                     <<ErrArg(r.err)>>),
                     fmtCommand |-> r.str]
                ELSE
                    [pc |-> "exec", msg |-> <<>>, fmtCommand |-> r.str]

Dispatch_IgnoresOk(u) ==
    IF u.Type # Command THEN
        [pc |-> "range", msg |-> <<>>, fmtCommand |-> <<>>]
    ELSE
        LET l == Lookup(commands, u.Command)
            r == createCommand(l.command, u)
        IN  IF r.err # nil THEN
                [pc |-> "send",
                 msg |-> Sprintf(<<"Command formatting failed: ", "%", "v">>,
                                 <<ErrArg(r.err)>>),
                 fmtCommand |-> r.str]
            ELSE
                [pc |-> "exec", msg |-> <<>>, fmtCommand |-> r.str]

Dispatch_RunsOnFormatError(u) ==
    IF u.Type # Command THEN
        [pc |-> "range", msg |-> <<>>, fmtCommand |-> <<>>]
    ELSE
        LET l == Lookup(commands, u.Command)
        IN  IF ~l.ok THEN
                [pc |-> "send", msg |-> <<"Command not supported">>, fmtCommand |-> <<>>]
            ELSE
                LET r == createCommand(l.command, u)
                IN  [pc |-> "exec",
                     msg |-> IF r.err # nil
                             THEN Sprintf(<<"Command formatting failed: ", "%", "v">>,
                                          <<ErrArg(r.err)>>)
                             ELSE <<>>,
                     fmtCommand |-> r.str]

(* The body of the range loop for update u, up to the call of the executor *)
(* or of SendMessage: where the poller goes next, with msg and fmtCommand. *)
Dispatch(u) ==
    IF u.Type # Command THEN
        [pc |-> "range", msg |-> <<>>, fmtCommand |-> <<>>]
    ELSE
        LET l == Lookup(commands, u.Command)
        IN  IF ~l.ok THEN
                [pc |-> "send", msg |-> <<"Command not supported">>, fmtCommand |-> <<>>]
            ELSE
                LET r == createCommand(l.command, u)
                IN  IF r.err # nil THEN
                        [pc |-> "send",
                         msg |-> Sprintf(<<"Command formatting failed: ", "%", "v">>,
                                         <<ErrArg(r.err)>>),
                         fmtCommand |-> r.str]
                    ELSE
                        [pc |-> "exec", msg |-> <<>>, fmtCommand |-> r.str]

(* for update := range updates *)
PollRange ==
    /\ pc = "range"
    /\ ch # <<>>
    /\ update' = Head(ch)
    /\ ch' = Tail(ch)
    /\ taken' = Append(taken, Head(ch))
    /\ LET d == Dispatch(Head(ch))
       IN  /\ pc' = d.pc
           /\ msg' = d.msg
           /\ fmtCommand' = d.fmtCommand
    /\ UNCHANGED <<closed, execLog, sendLog, cmdVars, recvVars, auxVars>>

ExecReply_ReturnsOnFailure(command, r) ==
    IF r.err # nil
    THEN [pc |-> "done",
          msg |-> Sprintf(<<"Command ", "%", "s", " failed: ", "%", "v">>,
                          <<StrArg(command), ErrArg(r.err)>>)]
    ELSE [pc |-> "send", msg |-> r.out]

(* a loop that takes the next message without sending the reply *)
ExecReply_WithoutSend(command, r) ==
    [pc |-> "range",
     msg |-> IF r.err # nil
             THEN Sprintf(<<"Command ", "%", "s", " failed: ", "%", "v">>,
                          <<StrArg(command), ErrArg(r.err)>>)
             ELSE r.out]

(* The reply text after executor.execCommand(fmtCommand) returned r. *)
ExecReply(command, r) ==
    IF r.err # nil
    THEN [pc |-> "send",
          msg |-> Sprintf(<<"Command ", "%", "s", " failed: ", "%", "v">>,
                          <<StrArg(command), ErrArg(r.err)>>)]
    ELSE [pc |-> "send", msg |-> r.out]

(* output, err := executor.execCommand(fmtCommand) *)
PollExec ==
    /\ pc = "exec"
    /\ \E r \in execCommand(fmtCommand) :
          /\ execLog' = Append(execLog,
                               [n |-> Len(taken), command |-> fmtCommand,
                                out |-> r.out, err |-> r.err])
          /\ msg' = ExecReply(fmtCommand, r).msg
          /\ pc' = ExecReply(fmtCommand, r).pc
    /\ UNCHANGED <<ch, closed, update, fmtCommand, taken, sendLog, cmdVars, recvVars, auxVars>>

AfterSend_ReturnsOnError(err) == IF err # nil THEN "done" ELSE "range"

(* After SendMessage returned err: the error is logged and the loop goes on. *)
AfterSend(err) == "range"

(* err := sr.SendMessage(msg, update) *)
PollSend ==
    /\ pc = "send"
    /\ \E e \in SendResults :
          /\ sendLog' = Append(sendLog,
                               [n |-> Len(taken), message |-> msg, replyTo |-> update,
                                err |-> e])
          /\ pc' = AfterSend(e)
    /\ UNCHANGED <<ch, closed, update, fmtCommand, msg, taken, execLog,
                   cmdVars, recvVars, auxVars>>

(* a loop that stops at the close without draining the channel *)
PollDone_WithoutDraining ==
    /\ pc = "range"
    /\ closed
    /\ pc' = "done"
    /\ UNCHANGED <<ch, closed, update, fmtCommand, msg, taken, execLog,
                   sendLog, cmdVars, recvVars, auxVars>>

(* the range loop ends when the channel is closed and drained: wg.Done() *)
PollDone ==
    /\ pc = "range"
    /\ ch = <<>>
    /\ closed
    /\ pc' = "done"
    /\ UNCHANGED <<ch, closed, update, fmtCommand, msg, taken, execLog,
                   sendLog, cmdVars, recvVars, auxVars>>

-----------------------------------------------------------------------------
(* The socket adapter (signal.go): JSON-RPC objects, parseMessage,         *)
(* parseResponse and the receive loop.                                     *)

(* strings.Split(s, sep) for a one-character separator: the pieces between *)
(* the separators, empty pieces included; one piece for a string without   *)
(* separator, the empty string included.                                   *)
RECURSIVE Split(_, _)
Split(s, sep) ==
    IF \A i \in 1..Len(s) : s[i] # sep
    THEN <<s>>
    ELSE LET i == CHOOSE k \in 1..Len(s) :
                      s[k] = sep /\ \A j \in 1..(k - 1) : s[j] # sep
         IN  <<SubSeq(s, 1, i - 1)>> \o Split(SubSeq(s, i + 1, Len(s)), sep)

HasPrefix(s, p) == Len(s) >= 1 /\ s[1] = p

TrimPrefix(s, p) == IF HasPrefix(s, p) THEN Tail(s) ELSE s

(* A *json.RawMessage field: nil (absent or null), or a JSON value that    *)
(* json.Unmarshal accepts for the target struct (ok) or rejects.  For the  *)
(* params of a notification the two fields parseMessage reads are kept:    *)
(* envelope.sourceNumber and envelope.syncMessage.sentMessage.message.     *)
NullRaw == [nil |-> TRUE, ok |-> FALSE, sourceNumber |-> "", message |-> <<>>]

BadRaw == [nil |-> FALSE, ok |-> FALSE, sourceNumber |-> "", message |-> <<>>]

ReceiveParams(sourceNumber, message) ==
    [nil |-> FALSE, ok |-> TRUE, sourceNumber |-> sourceNumber,
     message |-> message]

SendResult == [nil |-> FALSE, ok |-> TRUE, sourceNumber |-> "", message |-> <<>>]

(* rpcMessage: Error is TRUE for a non-nil error object. *)
rpcMessage(method, params, result, error) ==
    [Method |-> method, Params |-> params, Result |-> result, Error |-> error]

(* var msg rpcMessage *)
ZeroRpc == rpcMessage("", NullRaw, NullRaw, FALSE)

(* var message Message: the zero Type is Command (iota 0). *)
ZeroMessage == Message(Command, <<>>, <<>>, "")

(* signalReceiver.sources, the configured allow-list *)
sources == <<"+111", "+222">>

Contains(list, x) == \E i \in 1..Len(list) : list[i] = x

(* parseMessage without the allow-list check *)
parseMessage_NoSourceCheck(rpc, srcs) ==
    LET recvParams == rpc.Params IN
    IF ~recvParams.ok
    THEN [message |-> ZeroMessage,
          err |-> <<"messageReceiver: unmarshal notification error to interface map: ",
                    "json error">>]
    ELSE LET cmds    == Split(recvParams.message, " ")
             command == cmds[1]
             isCmd   == HasPrefix(command, "/")
         IN  [message |->
                  [Type    |-> IF isCmd THEN Command ELSE Chat,
                   Raw     |-> <<rpc.Params>>,
                   Command |-> IF isCmd THEN TrimPrefix(command, "/") ELSE command,
                   Source  |-> recvParams.sourceNumber,
                   Args    |-> Tail(cmds),
                   Text    |-> <<>>,
                   ChatID  |-> 0],
              err |-> nil]

(* parseMessage: the (Message, error) it returns. *)
parseMessage(rpc, srcs) ==
    LET recvParams == rpc.Params IN
    IF ~recvParams.ok
    THEN [message |-> ZeroMessage,
          err |-> <<"messageReceiver: unmarshal notification error to interface map: ",
                    "json error">>]
    ELSE IF ~Contains(srcs, recvParams.sourceNumber)
    THEN [message |-> ZeroMessage,
          err |-> <<"messageReceiver: Message ignored as sources is not valid: ",
                    recvParams.sourceNumber>>]
    ELSE LET cmds    == Split(recvParams.message, " ")
             command == cmds[1]
             isCmd   == HasPrefix(command, "/")
         IN  [message |->
                  [Type    |-> IF isCmd THEN Command ELSE Chat,
                   Raw     |-> <<rpc.Params>>,
                   Command |-> IF isCmd THEN TrimPrefix(command, "/") ELSE command,
                   Source  |-> recvParams.sourceNumber,
                   Args    |-> Tail(cmds),
                   Text    |-> <<>>,
                   ChatID  |-> 0],
              err |-> nil]

(* parseResponse without the check of json.Unmarshal's error *)
parseResponse_Unchecked(rpc) ==
    [message |-> [Type |-> Response, Raw |-> <<rpc.Result>>,
                  Command |-> <<>>, Source |-> "", Args |-> <<>>,
                  Text |-> <<>>, ChatID |-> 0],
     err |-> nil]

(* parseResponse: the (Message, error) it returns. *)
parseResponse(rpc) ==
    IF ~rpc.Result.ok
    THEN [message |-> ZeroMessage,
          err |-> <<"messageReceiver: unmarshal response error to interface map: ",
                    "json error">>]
    ELSE [message |-> [Type |-> Response, Raw |-> <<rpc.Result>>,
                       Command |-> <<>>, Source |-> "", Args |-> <<>>,
                       Text |-> <<>>, ChatID |-> 0],
          err |-> nil]

(* The body of the receive loop after Decode: what, if anything, goes on   *)
(* the channel for the decoded object.                                     *)
Drop == [deliver |-> FALSE, m |-> ZeroMessage]

Deliver(parsed) ==
    IF parsed.err # nil THEN Drop ELSE [deliver |-> TRUE, m |-> parsed.message]

(* the loop body with the error test after the other two *)
Classify_ErrorCheckLast(rpc) ==
    IF ~rpc.Params.nil /\ rpc.Method = "receive"
    THEN Deliver(parseMessage(rpc, sources))
    ELSE IF ~rpc.Result.nil THEN Deliver(parseResponse(rpc))
    ELSE Drop

Classify(rpc) ==
    IF rpc.Error THEN Drop
    ELSE IF ~rpc.Params.nil /\ rpc.Method = "receive"
    THEN Deliver(parseMessage(rpc, sources))
    ELSE IF ~rpc.Result.nil THEN Deliver(parseResponse(rpc))
    ELSE Drop

(* What Decode returns: the error class and the object as far as it was    *)
(* filled in.  "type" is an UnmarshalTypeError (the other fields of the    *)
(* object are decoded), "syntax" a SyntaxError; "eof", "unexpected_eof",   *)
(* "reset" and "closed" are what a read of the socket ends in.             *)
Frame(err, rpc) == [err |-> err, rpc |-> rpc]

(* the loop without the test for net.ErrClosed *)
Returns_OnlyEOF(err) == err = "eof"

(* errors.Is(err, io.EOF) || errors.Is(err, net.ErrClosed) *)
Returns(err) == err \in {"eof", "closed"}

(* json.Decoder keeps a syntax error and a read error in dec.err and       *)
(* returns it from every later Decode; a type error is not kept.           *)
Sticky(err) == err \in {"syntax", "eof", "unexpected_eof", "reset", "closed"}

(* The objects signal-cli may write on the socket, as Decode returns them. *)
CmdFrame ==
    Frame("none", rpcMessage("receive",
                             ReceiveParams("+111", <<"/", "noargs">>),
                             NullRaw, FALSE))

ChatFrame ==
    Frame("none", rpcMessage("receive", ReceiveParams("+222", <<"hi">>),
                             NullRaw, FALSE))

SigFrames ==
    {CmdFrame,
     ChatFrame,
     \* a sender that is not in the allow-list
     Frame("none", rpcMessage("receive",
                              ReceiveParams("+999", <<"/", "noargs">>),
                              NullRaw, FALSE)),
     \* the response to a send request, and one with an unusable result
     Frame("none", rpcMessage("", NullRaw, SendResult, FALSE)),
     Frame("none", rpcMessage("", NullRaw, BadRaw, FALSE)),
     \* a method other than "receive" together with a result
     Frame("none", rpcMessage("other", NullRaw, SendResult, FALSE)),
     \* an error object, alone and with every other field set
     Frame("none", rpcMessage("", NullRaw, NullRaw, TRUE)),
     Frame("none", rpcMessage("receive",
                              ReceiveParams("+111", <<"/", "noargs">>),
                              SendResult, TRUE)),
     \* none of method, params, result, error
     Frame("none", ZeroRpc),
     \* a field of the wrong JSON type beside a complete notification
     Frame("type", rpcMessage("receive",
                              ReceiveParams("+111", <<"/", "noargs">>),
                              NullRaw, FALSE)),
     \* bytes that are not JSON
     Frame("syntax", ZeroRpc)}

(* How the stream of objects can end while the connection is open: the     *)
(* peer closes it between two objects or inside one, or it is reset.       *)
ReadErrors == {"eof", "unexpected_eof", "reset"}

(* The Bot API updates of the polling adapter, with what the library's     *)
(* accessors return for them.                                              *)
TgUpdate(hasMessage, text, isCommand, command, arguments, chatID) ==
    [hasMessage |-> hasMessage, Text |-> text, IsCommand |-> isCommand,
     Command |-> command, CommandArguments |-> arguments, ChatID |-> chatID]

CmdUpdate == TgUpdate(TRUE, <<"/", "noargs">>, TRUE, <<"noargs">>, <<>>, 7)

ChatUpdate == TgUpdate(TRUE, <<"hi">>, FALSE, <<>>, <<>>, 8)

TgUpdates ==
    {CmdUpdate,
     ChatUpdate,
     TgUpdate(TRUE, <<"/", "testcmd", " ", "hello">>, TRUE, <<"testcmd">>,
              <<"hello">>, 7),
     TgUpdate(FALSE, <<>>, FALSE, <<>>, <<>>, 0)}

(* The library's view of a message: its text and its first entity, if    *)
(* any.  A command is a text whose first entity is a "bot_command" at      *)
(* offset 0; the entity covers the "/" and the command word.               *)
NoEntity == [type |-> "", offset |-> 0, length |-> 0]

BotCommand(offset, length) ==
    [type |-> "bot_command", offset |-> offset, length |-> length]

(* Message.IsCommand() *)
MsgIsCommand(text, entity) ==
    entity.type = "bot_command" /\ entity.offset = 0

(* Message.CommandWithAt(): m.Text[1:entity.Length] *)
MsgCommandWithAt(text, entity) ==
    IF ~MsgIsCommand(text, entity) THEN <<>>
    ELSE SubSeq(text, 2, entity.length)

(* Message.Command(): CommandWithAt() up to the first "@" *)
MsgCommand(text, entity) ==
    LET cw == MsgCommandWithAt(text, entity) IN
    IF \E i \in 1..Len(cw) : cw[i] = "@"
    THEN SubSeq(cw, 1, (CHOOSE i \in 1..Len(cw) :
                           cw[i] = "@" /\ \A j \in 1..(i - 1) : cw[j] # "@") - 1)
    ELSE cw

(* Message.CommandArguments(): m.Text[entity.Length+1:], empty when the   *)
(* command is the whole text                                               *)
MsgCommandArguments(text, entity) ==
    IF ~MsgIsCommand(text, entity) THEN <<>>
    ELSE IF Len(text) = entity.length THEN <<>>
    ELSE SubSeq(text, entity.length + 2, Len(text))

(* the update of a message with the given text, first entity and chat *)
BotUpdate(text, entity, chatID) ==
    [hasMessage       |-> TRUE,
     Text             |-> text,
     Entity           |-> entity,
     IsCommand        |-> MsgIsCommand(text, entity),
     Command          |-> MsgCommand(text, entity),
     CommandArguments |-> MsgCommandArguments(text, entity),
     ChatID           |-> chatID]

(* the update without a message *)
EmptyUpdate ==
    [hasMessage |-> FALSE, Text |-> <<>>, Entity |-> NoEntity,
     IsCommand |-> FALSE, Command |-> <<>>, CommandArguments |-> <<>>,
     ChatID |-> 0]

(* parseTelegramMessage that splits the arguments without looking at them *)
parseTelegramMessage_AlwaysSplit(u) ==
    IF ~u.hasMessage
    THEN Message(Update, <<>>, <<>>, "")
    ELSE [Type    |-> IF u.IsCommand THEN Command ELSE Chat,
          Raw     |-> u.Text,
          Command |-> u.Command,
          ChatID  |-> u.ChatID,
          Args    |-> Split(u.CommandArguments, " "),
          Text    |-> <<>>,
          Source  |-> ""]

(* parseTelegramMessage *)
parseTelegramMessage(u) ==
    IF ~u.hasMessage
    THEN Message(Update, <<>>, <<>>, "")
    ELSE [Type    |-> IF u.IsCommand THEN Command ELSE Chat,
          Raw     |-> u.Text,
          Command |-> u.Command,
          ChatID  |-> u.ChatID,
          Args    |-> IF u.CommandArguments # <<>>
                      THEN Split(u.CommandArguments, " ") ELSE <<>>,
          Text    |-> <<>>,
          Source  |-> ""]

(* The traffic of a run.  "mixed": up to MaxFrames objects of any kind.    *)
(* "sparse": up to MaxFrames objects, each a command or bytes that are     *)
(* not JSON.  "burst": one command and then chat messages, enough of them  *)
(* to fill the channel while the dispatcher is busy with the command.      *)
SyntaxFrame == Frame("syntax", ZeroRpc)

BurstLen == ChanCap + 2

FrameLimit == IF scenario = "burst" THEN BurstLen ELSE MaxFrames

NextFrames ==
    IF provider = "signal"
    THEN IF scenario = "mixed" THEN SigFrames
         ELSE IF scenario = "sparse" THEN {CmdFrame, SyntaxFrame}
         ELSE IF frames = <<>> THEN {CmdFrame} ELSE {ChatFrame}
    ELSE IF scenario = "mixed" THEN TgUpdates
         ELSE IF scenario = "sparse" THEN {CmdUpdate}
         ELSE IF frames = <<>> THEN {CmdUpdate} ELSE {ChatUpdate}

-----------------------------------------------------------------------------
(* The receive loops.  GetUpdates starts messageReceiver and returns the   *)
(* channel; both adapters end with the deferred close of the channel.      *)

(* a channel that hands out the newest message first *)
ChanSend_Lifo(q, x) == <<x>> \o q

(* ch <- m on the buffered channel *)
ChanSend(q, x) == Append(q, x)

(* return, with defer close(ch) *)
Return(why) ==
    /\ loc' = "exited"
    /\ closed' = TRUE
    /\ exitWhy' = Append(exitWhy, why)

(* the loop body of signal.go after Decode, for the object of frame n *)
Handle(rpc, n) ==
    LET r == Classify(rpc) IN
    IF r.deliver
    THEN /\ loc' = "send"
         /\ pending' = r.m
         /\ classified' = Append(classified, [f |-> n, m |-> r.m])
    ELSE /\ loc' = "select"
         /\ UNCHANGED <<pending, classified>>

(* the interrupt: signal.NotifyContext cancels the shared context *)
Cancel ==
    /\ provider # "none"
    /\ ~ctxDone
    /\ ctxDone' = TRUE
    /\ UNCHANGED <<provider, scenario, connClosed, loc, pending, decErr,
                   frames, classified, exitWhy, pollVars, cmdVars, auxVars>>

(* signal.go: the goroutine that waits for ctx.Done() and closes the conn *)
SigCloseConn ==
    /\ provider = "signal"
    /\ ctxDone
    /\ ~connClosed
    /\ connClosed' = TRUE
    /\ UNCHANGED <<provider, scenario, ctxDone, loc, pending, decErr,
                   frames, classified, exitWhy, pollVars, cmdVars, auxVars>>

(* the loop without its select on ctx.Done() *)
SigSelect_NoCtxCheck ==
    /\ provider = "signal"
    /\ loc = "select"
    /\ loc' = "decode"
    /\ UNCHANGED <<closed, exitWhy, provider, scenario, ctxDone, connClosed,
                   pending, decErr, frames, classified, ch, pc, update,
                   fmtCommand, msg, taken, execLog, sendLog, cmdVars, auxVars>>

(* signal.go: the select at the top of the loop *)
SigSelect ==
    /\ provider = "signal"
    /\ loc = "select"
    /\ IF ctxDone
       THEN Return("ctx")
       ELSE /\ loc' = "decode"
            /\ UNCHANGED <<closed, exitWhy>>
    /\ UNCHANGED <<provider, scenario, ctxDone, connClosed, pending, decErr,
                   frames, classified, ch, pc, update, fmtCommand, msg,
                   taken, execLog, sendLog, cmdVars, auxVars>>

(* Decode returns the next object of the socket, or fails on its bytes *)
SigDecodeFrame(fr) ==
    /\ provider = "signal"
    /\ loc = "decode"
    /\ decErr = "none"
    /\ Len(frames) < FrameLimit
    /\ frames' = Append(frames, fr)
    /\ decErr' = IF Sticky(fr.err) THEN fr.err ELSE "none"
    /\ Handle(fr.rpc, Len(frames) + 1)
    /\ UNCHANGED <<provider, scenario, ctxDone, connClosed, closed, exitWhy,
                   ch, pc, update, fmtCommand, msg, taken, execLog, sendLog,
                   cmdVars, auxVars>>

(* Decode fails because the read of the open connection fails *)
SigDecodeEnd(e) ==
    /\ provider = "signal"
    /\ loc = "decode"
    /\ decErr = "none"
    /\ ~connClosed
    /\ frames' = Append(frames, Frame(e, ZeroRpc))
    /\ decErr' = e
    /\ IF Returns(e)
       THEN /\ Return(e)
            /\ UNCHANGED <<pending, classified>>
       ELSE /\ Handle(ZeroRpc, Len(frames) + 1)
            /\ UNCHANGED <<closed, exitWhy>>
    /\ UNCHANGED <<provider, scenario, ctxDone, connClosed, ch, pc, update,
                   fmtCommand, msg, taken, execLog, sendLog, cmdVars, auxVars>>

(* Decode fails with net.ErrClosed after conn.Close() *)
SigDecodeClosed ==
    /\ provider = "signal"
    /\ loc = "decode"
    /\ decErr = "none"
    /\ connClosed
    /\ decErr' = "closed"
    /\ IF Returns("closed")
       THEN /\ Return("closed")
            /\ UNCHANGED <<pending, classified>>
       ELSE /\ Handle(ZeroRpc, 0)
            /\ UNCHANGED <<closed, exitWhy>>
    /\ UNCHANGED <<provider, scenario, ctxDone, connClosed, frames, ch, pc,
                   update, fmtCommand, msg, taken, execLog, sendLog, cmdVars, auxVars>>

(* Decode returns the error the decoder kept, without reading *)
SigDecodeSticky ==
    /\ provider = "signal"
    /\ loc = "decode"
    /\ decErr # "none"
    /\ IF Returns(decErr)
       THEN /\ Return(decErr)
            /\ UNCHANGED <<pending, classified>>
       ELSE /\ Handle(ZeroRpc, 0)
            /\ UNCHANGED <<closed, exitWhy>>
    /\ UNCHANGED <<provider, scenario, ctxDone, connClosed, decErr, frames,
                   ch, pc, update, fmtCommand, msg, taken, execLog, sendLog,
                   cmdVars, auxVars>>

(* a channel without capacity limit *)
ChanFull_Unbounded(q) == FALSE

(* make(chan Message, 10): a send blocks while the buffer holds 10 *)
ChanFull(q) == Len(q) >= ChanCap

(* s.ch <- m, t.ch <- m: blocks while the channel is full *)
RecvSend ==
    /\ provider # "none"
    /\ loc = "send"
    /\ ~ChanFull(ch)
    /\ ch' = ChanSend(ch, pending)
    /\ loc' = "select"
    /\ UNCHANGED <<provider, scenario, ctxDone, connClosed, pending, decErr,
                   frames, classified, exitWhy, closed, pc, update,
                   fmtCommand, msg, taken, execLog, sendLog, cmdVars, auxVars>>

(* telegram.go: case <-ctx.Done() *)
TgDone ==
    /\ provider = "telegram"
    /\ loc = "select"
    /\ ctxDone
    /\ connClosed' = TRUE
    /\ Return("ctx")
    /\ UNCHANGED <<provider, scenario, ctxDone, pending, decErr, frames,
                   classified, ch, pc, update, fmtCommand, msg, taken,
                   execLog, sendLog, cmdVars, auxVars>>

(* telegram.go: case update, ok := <-updates with ok true.  The library    *)
(* closes updates only after StopReceivingUpdates, which only TgDone       *)
(* calls, so the branch for ok false is never taken.                       *)
TgReceive(u) ==
    /\ provider = "telegram"
    /\ loc = "select"
    /\ Len(frames) < FrameLimit
    /\ frames' = Append(frames, u)
    /\ pending' = parseTelegramMessage(u)
    /\ classified' = Append(classified,
                            [f |-> Len(frames) + 1,
                             m |-> parseTelegramMessage(u)])
    /\ loc' = "send"
    /\ UNCHANGED <<provider, scenario, ctxDone, connClosed, decErr, exitWhy,
                   closed, ch, pc, update, fmtCommand, msg, taken, execLog,
                   sendLog, cmdVars, auxVars>>

-----------------------------------------------------------------------------
(* signalReceiver.SendMessage and getNextID, called by several goroutines  *)
(* at once.                                                                *)

Callers == 1..MaxCallers

(* a mutex that never excludes anybody *)
CanLock_NoMutex == TRUE

(* s.mu.Lock() returns when nobody holds the mutex *)
CanLock == mu = 0

(* SendMessage is called *)
SendMessageCall(p) ==
    /\ spc[p] = "idle"
    /\ sent[p] < MaxSends
    /\ sent' = [sent EXCEPT ![p] = @ + 1]
    /\ spc' = [spc EXCEPT ![p] = "lock"]
    /\ UNCHANGED <<nextID, mu, sid, issued, encLog, wire, parseVars, cmdVars,
                   pollVars, recvVars, httpVars>>

(* getNextID: s.mu.Lock() *)
GetNextID_Lock(p) ==
    /\ spc[p] = "lock"
    /\ CanLock
    /\ mu' = p
    /\ spc' = [spc EXCEPT ![p] = "read"]
    /\ UNCHANGED <<nextID, sid, sent, issued, encLog, wire, parseVars, cmdVars,
                   pollVars, recvVars, httpVars>>

(* getNextID: id := s.nextID *)
GetNextID_Read(p) ==
    /\ spc[p] = "read"
    /\ sid' = [sid EXCEPT ![p] = nextID]
    /\ issued' = Append(issued, nextID)
    /\ spc' = [spc EXCEPT ![p] = "incr"]
    /\ UNCHANGED <<nextID, mu, sent, encLog, wire, parseVars, cmdVars, pollVars,
                   recvVars, httpVars>>

(* getNextID: s.nextID++ *)
GetNextID_Incr(p) ==
    /\ spc[p] = "incr"
    /\ nextID' = nextID + 1
    /\ spc' = [spc EXCEPT ![p] = "unlock"]
    /\ UNCHANGED <<mu, sid, sent, issued, encLog, wire, parseVars, cmdVars,
                   pollVars, recvVars, httpVars>>

(* getNextID: s.mu.Unlock(); return id *)
GetNextID_Unlock(p) ==
    /\ spc[p] = "unlock"
    /\ mu' = 0
    /\ spc' = [spc EXCEPT ![p] = "encode"]
    /\ UNCHANGED <<nextID, sid, sent, issued, encLog, wire, parseVars, cmdVars,
                   pollVars, recvVars, httpVars>>

(* SendMessage: the call of s.enc.Encode(req) with ID: id; no lock is held *)
SendMessage_Encode(p) ==
    /\ spc[p] = "encode"
    /\ spc' = [spc EXCEPT ![p] = "write"]
    /\ UNCHANGED <<nextID, mu, sid, sent, issued, encLog, wire, parseVars,
                   cmdVars, pollVars, recvVars, httpVars>>

(* enc.Encode: the frame is written to the connection, or the write fails, *)
(* and Encode returns                                                      *)
SendMessage_Written(p, err) ==
    /\ spc[p] = "write"
    /\ encLog' = encLog \cup {err}
    /\ wire' = IF err = nil THEN sid[p] ELSE wire
    /\ spc' = [spc EXCEPT ![p] = "idle"]
    /\ UNCHANGED <<nextID, mu, sid, sent, issued, parseVars, cmdVars,
                   pollVars, recvVars, httpVars>>

-----------------------------------------------------------------------------
(* The HTTP server: HttpServer, setupMux, authMiddleware and                *)
(* httpCommandHandler.ServeHTTP.                                           *)

(* http.ResponseWriter: the header map's Content-Type (hdr); whether the   *)
(* header has been written, and the status and Content-Type sent with it;  *)
(* the body sent; whether a write has failed.                              *)
NewRecorder ==
    [hdr |-> "", wrote |-> FALSE, status |-> 0, ctype |-> "", body |-> <<>>,
     broken |-> FALSE]

(* w.Header().Set("Content-Type", v) *)
HeaderSet(w, v) == [w EXCEPT !.hdr = v]

(* w.WriteHeader(code): the first call sends the status and the header     *)
(* map as it is; a later call is ignored.                                  *)
WriteHeader(w, code) ==
    IF w.wrote THEN w
    ELSE [w EXCEPT !.wrote = TRUE, !.status = code, !.ctype = w.hdr]

(* w.Write(data): writes the header with status 200 if it has not been     *)
(* written, with a Content-Type detected from the data if none is set;     *)
(* then the data follow the body, unless the write fails.                  *)
Write(w, data, ok) ==
    LET w0 == IF ~w.wrote /\ w.hdr = ""
              THEN HeaderSet(w, "text/plain; charset=utf-8") ELSE w
        w1 == WriteHeader(w0, 200)
    IN  IF ok /\ ~w1.broken
        THEN [w1 EXCEPT !.body = @ \o data]
        ELSE [w1 EXCEPT !.broken = TRUE]

(* http.Error(w, error, code) *)
HttpError(w, error, code) ==
    Write(WriteHeader(HeaderSet(w, "text/plain; charset=utf-8"), code),
          error \o <<"\n">>, TRUE)

(* fmt.Sprintf("%q", s) for a word without characters to escape *)
Quote(s) == <<"\"">> \o s \o <<"\"">>

(* GetSecret(envVar, cfgSetting), env being the variable's (value, exists) *)
GetSecret(env, cfgSetting) ==
    IF env.exists THEN [secret |-> env.value, ok |-> TRUE]
    ELSE IF cfgSetting # <<>> THEN [secret |-> cfgSetting, ok |-> TRUE]
    ELSE [secret |-> <<>>, ok |-> FALSE]

(* authMiddleware that takes the bare token as well *)
authMiddleware_PrefixOptional(token, auth) ==
    ~(token # <<>> /\ auth # <<"Token ">> \o token /\ auth # token)

(* authMiddleware: whether the request goes on to next.ServeHTTP *)
authMiddleware(token, auth) ==
    ~(token # <<>> /\ auth # <<"Token ">> \o token)

(* url.Values.Get(key) on the parsed query: the first value of the key *)
QueryGet(query, key) ==
    IF \E i \in 1..Len(query) : query[i].k = key
    THEN query[CHOOSE i \in 1..Len(query) :
                   query[i].k = key /\ \A j \in 1..(i - 1) : query[j].k # key].v
    ELSE <<>>

(* ServeHTTP's loop over cmdDef.Args that stops at the last empty value *)
FirstMissing_Last(query, args) ==
    IF \E i \in 1..Len(args) : QueryGet(query, args[i]) = <<>>
    THEN CHOOSE i \in 1..Len(args) :
             /\ QueryGet(query, args[i]) = <<>>
             /\ \A j \in (i + 1)..Len(args) : QueryGet(query, args[j]) # <<>>
    ELSE 0

(* ServeHTTP's loop over cmdDef.Args that returns only at an argKey the    *)
(* query string does not hold                                              *)
FirstMissing_AbsentOnly(query, args) ==
    LET absent(key) == \A i \in 1..Len(query) : query[i].k # key
    IN  IF \E i \in 1..Len(args) : absent(args[i])
        THEN CHOOSE i \in 1..Len(args) :
                 /\ absent(args[i])
                 /\ \A j \in 1..(i - 1) : ~absent(args[j])
        ELSE 0

(* ServeHTTP's loop over cmdDef.Args: the index of the argKey at which it  *)
(* returns, 0 if it runs to the end                                        *)
FirstMissing(query, args) ==
    IF \E i \in 1..Len(args) : QueryGet(query, args[i]) = <<>>
    THEN CHOOSE i \in 1..Len(args) :
             /\ QueryGet(query, args[i]) = <<>>
             /\ \A j \in 1..(i - 1) : QueryGet(query, args[j]) # <<>>
    ELSE 0

(* ServeHTTP's values taken in the order of the query string *)
Values_QueryOrder(query, args) ==
    LET present == SelectSeq(query, LAMBDA e : \E i \in 1..Len(args) : args[i] = e.k)
    IN  [i \in 1..Len(args) |->
             IF i <= Len(present) THEN present[i].v ELSE <<>>]

(* ServeHTTP's values: query.Get(argKey) for each argKey of cmdDef.Args *)
Values(query, args) == [i \in 1..Len(args) |-> QueryGet(query, args[i])]

(* The part of ServeHTTP before the executor is called: the error and the  *)
(* status it answers with (nil if it goes on), the createCommand calls it  *)
(* has made, and fullCmd.                                                  *)
Answer(error, code, calls, fullCmd) ==
    [err |-> error, code |-> code, create |-> calls, fullCmd |-> fullCmd]

Validate_NoRenderCheck(table, r) ==
    LET cmdName == TrimPrefix(r.path, "/cmd/")
        found   == Lookup(table, cmdName)
        cmdDef  == found.command
        missing == FirstMissing(r.query, cmdDef.Args)
        message == Message(Command, cmdName, Values(r.query, cmdDef.Args), "")
        created == createCommand(cmdDef, message)
    IN  IF cmdName = <<>>
        THEN Answer(<<"no command specified">>, 400, <<>>, <<>>)
        ELSE IF ~found.ok
        THEN Answer(<<"unknown command ">> \o Quote(cmdName), 404, <<>>, <<>>)
        ELSE IF missing # 0
        THEN Answer(<<"missing required query parameter ">>
                        \o Quote(cmdDef.Args[missing]), 400, <<>>, <<>>)
        ELSE Answer(nil, 0, <<[def |-> cmdDef, msg |-> message]>>, created.str)

Validate(table, r) ==
    LET cmdName == TrimPrefix(r.path, "/cmd/")
        found   == Lookup(table, cmdName)
        cmdDef  == found.command
        missing == FirstMissing(r.query, cmdDef.Args)
        message == Message(Command, cmdName, Values(r.query, cmdDef.Args), "")
        created == createCommand(cmdDef, message)
    IN  IF cmdName = <<>>
        THEN Answer(<<"no command specified">>, 400, <<>>, <<>>)
        ELSE IF ~found.ok
        THEN Answer(<<"unknown command ">> \o Quote(cmdName), 404, <<>>, <<>>)
        ELSE IF missing # 0
        THEN Answer(<<"missing required query parameter ">>
                        \o Quote(cmdDef.Args[missing]), 400, <<>>, <<>>)
        ELSE IF created.err # nil
        THEN Answer(created.err, 400, <<[def |-> cmdDef, msg |-> message]>>, <<>>)
        ELSE Answer(nil, 0, <<[def |-> cmdDef, msg |-> message]>>, created.str)

(* cfg.Commands of the server *)
httpCommands ==
    (<<"greet">> :> CommandDef(<<"echo Hello ", "%", "s", " ", "%", "s", " times">>,
                               <<<<"name">>, <<"times">>>>))
    @@ (<<"testcmd">> :> CommandDef(<<"echo hello">>, <<>>))
    @@ (<<"bad">> :> CommandDef(<<"echo Hello ", "%", "s", " ", "%", "s">>,
                                <<<<"name">>>>))

NoConfig == [token |-> <<>>, env |-> [value |-> <<>>, exists |-> FALSE]]

NoServer == [authToken |-> <<>>, gate |-> <<>>]

NoRequest == [path |-> <<>>, query |-> <<>>, auth |-> <<>>]

NoCalls == [next |-> 0, create |-> <<>>, exec |-> <<>>]

(* ListenAndServe is serving and the goroutine of HttpServer waits for     *)
(* ctx.Done()                                                              *)
Serving == [serve |-> "serving", shutdown |-> "waiting"]

(* a request has been accepted and its handler has not returned *)
InFlight == hpc \in {"next", "exec", "write"}

(* HttpServer's goroutine: <-ctx.Done(), then httpSrv.Shutdown(shutdownCtx) *)
(* is called and closes the listener                                       *)
ShutdownCall ==
    /\ hpc \notin {"off", "boot"}
    /\ ctxDone
    /\ hlife.shutdown = "waiting"
    /\ hlife' = [hlife EXCEPT !.shutdown = "called"]
    /\ UNCHANGED <<hcfg, hsrv, hpc, hreq, hw, hfull, hres, hlog, parseVars,
                   idVars, cmdVars, pollVars, recvVars>>

(* httpSrv.Shutdown returns: no request is in flight, or the 5 s of        *)
(* shutdownCtx have expired                                                *)
ShutdownReturn(expired) ==
    /\ hlife.shutdown = "called"
    /\ ~InFlight \/ expired
    /\ hlife' = [hlife EXCEPT !.shutdown = "returned"]
    /\ UNCHANGED <<hcfg, hsrv, hpc, hreq, hw, hfull, hres, hlog, parseVars,
                   idVars, cmdVars, pollVars, recvVars>>

(* httpSrv.ListenAndServe returns http.ErrServerClosed as soon as Shutdown *)
(* has been called, or another error when it cannot listen; HttpServer     *)
(* returns and the deferred wg.Done() runs                                 *)
ListenAndServeReturn(failed) ==
    /\ hpc \notin {"off", "boot"}
    /\ hlife.serve = "serving"
    /\ IF failed
       THEN /\ hpc = "listen"
            /\ hlife.shutdown = "waiting"
            /\ hlife' = [hlife EXCEPT !.serve = "failed"]
       ELSE /\ hlife.shutdown # "waiting"
            /\ hlife' = [hlife EXCEPT !.serve = "closed"]
    /\ UNCHANGED <<hcfg, hsrv, hpc, hreq, hw, hfull, hres, hlog, parseVars,
                   idVars, cmdVars, pollVars, recvVars>>

(* HttpServer up to ListenAndServe: the handler and the mux are built *)
HttpServer ==
    /\ hpc = "boot"
    /\ hsrv' = [authToken |-> GetSecret(hcfg.env, hcfg.token).secret,
                gate      |-> hcfg.token]
    /\ hpc' = "listen"
    /\ UNCHANGED <<hcfg, hlife, hreq, hw, hfull, hres, hlog, parseVars, idVars,
                   cmdVars, pollVars, recvVars>>

(* a request for /health *)
ServeHealth(r) ==
    /\ hpc = "listen"
    /\ hlife.shutdown = "waiting"
    /\ r.path = <<"/health">>
    /\ hreq' = r
    /\ hw' = Write(WriteHeader(NewRecorder, 200), <<"ok">>, TRUE)
    /\ hpc' = "done"
    /\ UNCHANGED <<hcfg, hlife, hsrv, hfull, hres, hlog, parseVars, idVars,
                   cmdVars, pollVars, recvVars>>

(* a request under /cmd/: the handler authMiddleware returns *)
AuthMiddleware(r) ==
    /\ hpc = "listen"
    /\ hlife.shutdown = "waiting"
    /\ HasPrefix(r.path, "/cmd/")
    /\ hreq' = r
    /\ IF authMiddleware(hsrv.gate, r.auth)
       THEN /\ hlog' = [hlog EXCEPT !.next = @ + 1]
            /\ hw' = NewRecorder
            /\ hpc' = "next"
       ELSE /\ hw' = HttpError(NewRecorder, <<"unauthorized">>, 401)
            /\ hpc' = "done"
            /\ UNCHANGED hlog
    /\ UNCHANGED <<hcfg, hlife, hsrv, hfull, hres, parseVars, idVars, cmdVars,
                   pollVars, recvVars>>

(* ServeHTTP up to the call of the executor *)
ServeHTTP_Validate ==
    /\ hpc = "next"
    /\ LET a == Validate(httpCommands, hreq) IN
       /\ hlog' = [hlog EXCEPT !.create = @ \o a.create]
       /\ hfull' = a.fullCmd
       /\ IF a.err # nil
          THEN /\ hw' = HttpError(hw, a.err, a.code)
               /\ hpc' = "done"
          ELSE /\ hpc' = "exec"
               /\ UNCHANGED hw
    /\ UNCHANGED <<hcfg, hlife, hsrv, hreq, hres, parseVars, idVars, cmdVars,
                   pollVars, recvVars>>

(* ServeHTTP: h.executor.execCommand(fullCmd) returns, and the error *)
ServeHTTP_Exec(res) ==
    /\ hpc = "exec"
    /\ hlog' = [hlog EXCEPT !.exec = Append(@, hfull)]
    /\ hres' = res
    /\ hw' = IF res.err # nil THEN HttpError(hw, res.err, 400) ELSE hw
    /\ hpc' = "write"
    /\ UNCHANGED <<hcfg, hlife, hsrv, hreq, hfull, parseVars, idVars, cmdVars,
                   pollVars, recvVars>>

(* ServeHTTP: the Content-Type, fmt.Fprint(w, output), which fails or not, *)
(* and the error of the write                                              *)
ServeHTTP_Write(ok) ==
    /\ hpc = "write"
    /\ LET w1 == HeaderSet(hw, "text/plain")
           w2 == Write(w1, hres.out, ok)
       IN  hw' = IF w2.broken
                 THEN HttpError(w2, <<"write error">>, 500) ELSE w2
    /\ hpc' = "done"
    /\ UNCHANGED <<hcfg, hlife, hsrv, hreq, hfull, hres, hlog, parseVars, idVars,
                   cmdVars, pollVars, recvVars>>

-----------------------------------------------------------------------------
(* Specifications *)

PollInit ==
    /\ ch = <<>>
    /\ closed = FALSE
    /\ pc = "range"
    /\ update = NoMessage
    /\ fmtCommand = <<>>
    /\ msg = <<>>
    /\ taken = <<>>
    /\ execLog = <<>>
    /\ sendLog = <<>>

CmdIdle ==
    /\ c = NoDef
    /\ m = NoMessage
    /\ ret = NoRet
    /\ cpc = "idle"

(* No adapter: the stream is fed by Enqueue and CloseStream. *)
RecvIdle ==
    /\ provider = "none"
    /\ scenario = "mixed"
    /\ ctxDone = FALSE
    /\ connClosed = FALSE
    /\ loc = "select"
    /\ pending = NoMessage
    /\ decErr = "none"
    /\ frames = <<>>
    /\ classified = <<>>
    /\ exitWhy = <<>>

(* parseMessage's result before the call *)
NoParse == [message |-> ZeroMessage, err |-> nil]

ParseIdle ==
    /\ pin = ZeroRpc
    /\ pout = NoParse
    /\ ppc = "idle"
    /\ pfn = "signal"

(* NewSignalReceiver: nextID: 1, the mutex unlocked, no call under way *)
IdInit ==
    /\ nextID = 1
    /\ mu = 0
    /\ spc = [p \in Callers |-> "idle"]
    /\ sid = [p \in Callers |-> 0]
    /\ sent = [p \in Callers |-> 0]
    /\ issued = <<>>
    /\ encLog = {}
    /\ wire = 0

(* No HTTP server *)
HttpIdle ==
    /\ hcfg = NoConfig
    /\ hsrv = NoServer
    /\ hpc = "off"
    /\ hreq = NoRequest
    /\ hw = NewRecorder
    /\ hfull = <<>>
    /\ hres = NoRet
    /\ hlog = NoCalls
    /\ hlife = Serving

AuxIdle == ParseIdle /\ IdInit /\ HttpIdle

(* The dispatcher on an adapter's stream. *)
Init == CmdIdle /\ PollInit /\ RecvIdle /\ AuxIdle

Next ==
    \/ \E mm \in PollMsgs : Enqueue(mm)
    \/ CloseStream
    \/ PollRange
    \/ PollExec
    \/ PollSend
    \/ PollDone

Spec == Init /\ [][Next]_vars

(* cancel() of the context given to MessagingPoller, whose client is not   *)
(* one of the adapters: the stream is closed by CloseStream or not at all  *)
CancelPoller ==
    /\ provider = "none"
    /\ ~ctxDone
    /\ ctxDone' = TRUE
    /\ UNCHANGED <<provider, scenario, connClosed, loc, pending, decErr,
                   frames, classified, exitWhy, pollVars, cmdVars, auxVars>>

NextMock == Next \/ CancelPoller

(* The dispatcher on the stream of any client: the dispatcher's goroutine  *)
(* takes the steps it can take; nothing is assumed about the client.       *)
SpecMockFair ==
    /\ Init
    /\ [][NextMock]_vars
    /\ WF_vars(PollRange)
    /\ WF_vars(PollExec)
    /\ WF_vars(PollSend)
    /\ WF_vars(PollDone)

(* createCommand applied to every definition and argument list. *)
CallCreateCommand ==
    /\ cpc = "call"
    /\ ret' = createCommand(c, m)
    /\ cpc' = "done"
    /\ UNCHANGED <<c, m, pollVars, recvVars, auxVars>>

InitCmd ==
    /\ c \in Definitions
    /\ m \in {Message(Command, <<"cmd">>, a, "+111") : a \in ArgLists}
    /\ ret = NoRet
    /\ cpc = "call"
    /\ PollInit
    /\ RecvIdle
    /\ AuxIdle

NextCmd == CallCreateCommand

SpecCmd == InitCmd /\ [][NextCmd]_vars

(* main: MessagingFactory builds the adapter of the configured provider,   *)
(* MessagingPoller calls GetUpdates and ranges over the channel.           *)
BotStart ==
    /\ provider \in {"signal", "telegram"}
    /\ ctxDone = FALSE
    /\ connClosed = FALSE
    /\ loc = "select"
    /\ pending = NoMessage
    /\ decErr = "none"
    /\ frames = <<>>
    /\ classified = <<>>
    /\ exitWhy = <<>>
    /\ PollInit
    /\ CmdIdle
    /\ AuxIdle

InitBot == BotStart /\ scenario \in {"mixed", "burst"}

InitBotFair == BotStart /\ scenario \in {"sparse", "burst"}

(* the steps taken by the program's goroutines *)
BotSteps ==
    \/ SigCloseConn
    \/ SigSelect
    \/ SigDecodeClosed
    \/ SigDecodeSticky
    \/ RecvSend
    \/ TgDone
    \/ PollRange
    \/ PollExec
    \/ PollSend
    \/ PollDone

(* the steps that wait for the outside: the interrupt, the peer *)
BotInputs ==
    \/ Cancel
    \/ \E fr \in NextFrames : provider = "signal" /\ SigDecodeFrame(fr)
    \/ \E e \in ReadErrors : SigDecodeEnd(e)
    \/ \E u \in NextFrames : provider = "telegram" /\ TgReceive(u)

NextBot == BotSteps \/ BotInputs

SpecBot == InitBot /\ [][NextBot]_vars

(* Every goroutine that can take a step eventually takes one; nothing is   *)
(* assumed about the interrupt or about what the peer sends.               *)
SpecBotFair ==
    /\ InitBotFair
    /\ [][NextBot]_vars
    /\ WF_vars(SigCloseConn)
    /\ WF_vars(SigSelect)
    /\ WF_vars(SigDecodeClosed)
    /\ WF_vars(SigDecodeSticky)
    /\ WF_vars(RecvSend)
    /\ WF_vars(TgDone)
    /\ WF_vars(PollRange)
    /\ WF_vars(PollExec)
    /\ WF_vars(PollSend)
    /\ WF_vars(PollDone)

(* parseMessage applied to notifications of every sender and body. *)
BodyChars == {"/", " ", "a", "\t", "@"}

Texts == SeqsUpTo(BodyChars, MaxBodyLen)

Senders == {"+111", "+999"}

Notifications ==
    {rpcMessage("receive", ReceiveParams(src, body), NullRaw, FALSE) :
         src \in Senders, body \in Texts}
    \cup {rpcMessage("receive", BadRaw, NullRaw, FALSE)}

(* The first entity of a text.  A text that begins with "/" and a command *)
(* word carries a "bot_command" at offset 0: the tests end it before the   *)
(* first space or with the text, the server ends it with the command word. *)
(* Another text carries no entity, or a "bot_command" further on.          *)
FirstSpace(text) ==
    IF \E i \in 1..Len(text) : text[i] = " "
    THEN CHOOSE i \in 1..Len(text) :
             text[i] = " " /\ \A j \in 1..(i - 1) : text[j] # " "
    ELSE Len(text) + 1

WordEnd(text) ==
    CHOOSE n \in 1..Len(text) :
        /\ \A j \in 2..n : text[j] \in {"a", "@"}
        /\ n = Len(text) \/ text[n + 1] \notin {"a", "@"}

BeginsWithCommand(text) ==
    Len(text) >= 2 /\ text[1] = "/" /\ text[2] \notin {" ", "\t"}

EntitiesOf(text) ==
    IF BeginsWithCommand(text)
    THEN {BotCommand(0, FirstSpace(text) - 1)}
         \cup (IF text[2] = "a" THEN {BotCommand(0, WordEnd(text))} ELSE {})
    ELSE {NoEntity}
         \cup {BotCommand(i - 1, 2) : i \in {k \in 2..(Len(text) - 1) :
                    text[k] = "/" /\ text[k + 1] = "a" /\ text[k - 1] = " "}}

ChatIDs == {7, 8}

BotUpdates ==
    {EmptyUpdate}
    \cup UNION {{BotUpdate(text, entity, id) :
                    entity \in EntitiesOf(text), id \in ChatIDs} :
                text \in Texts}

CallParseMessage ==
    /\ ppc = "call"
    /\ pfn = "signal"
    /\ pout' = parseMessage(pin, sources)
    /\ ppc' = "done"
    /\ UNCHANGED <<pin, pfn, pollVars, recvVars, cmdVars, idVars, httpVars>>

CallParseTelegramMessage ==
    /\ ppc = "call"
    /\ pfn = "telegram"
    /\ pout' = [message |-> parseTelegramMessage(pin), err |-> nil]
    /\ ppc' = "done"
    /\ UNCHANGED <<pin, pfn, pollVars, recvVars, cmdVars, idVars, httpVars>>

InitParse ==
    /\ \/ pfn = "signal" /\ pin \in Notifications
       \/ pfn = "telegram" /\ pin \in BotUpdates
    /\ pout = NoParse
    /\ ppc = "call"
    /\ PollInit
    /\ RecvIdle
    /\ CmdIdle
    /\ IdInit
    /\ HttpIdle

NextParse == CallParseMessage \/ CallParseTelegramMessage

SpecParse == InitParse /\ [][NextParse]_vars

(* SendMessage called by MaxCallers goroutines, MaxSends times each. *)
InitID == CmdIdle /\ PollInit /\ RecvIdle /\ AuxIdle

NextID ==
    \E p \in Callers :
        \/ SendMessageCall(p)
        \/ GetNextID_Lock(p)
        \/ GetNextID_Read(p)
        \/ GetNextID_Incr(p)
        \/ GetNextID_Unlock(p)
        \/ SendMessage_Encode(p)
        \/ \E err \in SendResults : SendMessage_Written(p, err)

SpecID == InitID /\ [][NextID]_vars

(* The HTTP server with one request: the token of the configuration and    *)
(* of the environment, then a request.                                     *)
MaxQuery == 2

ConfigTokens == {<<>>, <<"secrettoken">>}

EnvTokens == {<<>>, <<"envtoken">>}

Configs ==
    {[token |-> t, env |-> e] :
         t \in ConfigTokens,
         e \in {NoConfig.env} \cup {[value |-> v, exists |-> TRUE] : v \in EnvTokens}}

CmdPaths ==
    {<<"/cmd/">> \o n :
         n \in {<<>>, <<"greet">>, <<"testcmd">>, <<"bad">>, <<"unknown">>}}

QueryPairs ==
    {[k |-> k, v |-> v] :
         k \in {<<"name">>, <<"times">>}, v \in {<<>>, <<"world">>, <<"2">>}}

AuthHeaders ==
    {<<>>, <<"secrettoken">>, <<"Bearer ", "secrettoken">>}
    \cup {<<"Token ">> \o t : t \in {<<"secrettoken">>, <<"envtoken">>}}

Requests ==
    {[path |-> p, query |-> q, auth |-> a] :
         p \in CmdPaths, q \in SeqsUpTo(QueryPairs, MaxQuery), a \in AuthHeaders}
    \cup {[path |-> <<"/health">>, query |-> <<>>, auth |-> a] : a \in AuthHeaders}

InitHttp ==
    /\ hcfg \in Configs
    /\ hsrv = NoServer
    /\ hpc = "boot"
    /\ hreq = NoRequest
    /\ hw = NewRecorder
    /\ hfull = <<>>
    /\ hres = NoRet
    /\ hlog = NoCalls
    /\ hlife = Serving
    /\ CmdIdle
    /\ PollInit
    /\ RecvIdle
    /\ ParseIdle
    /\ IdInit

NextHttp ==
    \/ HttpServer
    \/ hpc = "listen" /\ \E r \in Requests : ServeHealth(r)
    \/ hpc = "listen" /\ \E r \in Requests : AuthMiddleware(r)
    \/ ServeHTTP_Validate
    \/ \E res \in execCommand(hfull) : ServeHTTP_Exec(res)
    \/ \E ok \in BOOLEAN : ServeHTTP_Write(ok)

SpecHttp == InitHttp /\ [][NextHttp]_vars

(* main starts the dispatcher (a provider is configured) or the HTTP       *)
(* server (httpd.enabled); the two goroutines share the executor and the   *)
(* command table only, which have no state.                                *)
InitExec == Init \/ InitHttp

NextExec ==
    \/ hpc = "off" /\ Next
    \/ NextHttp

SpecExec == InitExec /\ [][NextExec]_vars

(* The HTTP server from its start to its end: a request, the cancellation  *)
(* of the context, Shutdown and the return of ListenAndServe.              *)
StopRequests ==
    {r \in Requests : r.query = <<>> /\ r.auth \in {<<>>, <<"Token ", "secrettoken">>}}

NextHttpStop ==
    \/ HttpServer
    \/ hpc = "listen" /\ \E r \in StopRequests : ServeHealth(r)
    \/ hpc = "listen" /\ \E r \in StopRequests : AuthMiddleware(r)
    \/ ServeHTTP_Validate
    \/ \E res \in execCommand(hfull) : ServeHTTP_Exec(res)
    \/ \E ok \in BOOLEAN : ServeHTTP_Write(ok)
    \/ CancelPoller
    \/ ShutdownCall
    \/ \E expired \in BOOLEAN : ShutdownReturn(expired)
    \/ \E failed \in BOOLEAN : ListenAndServeReturn(failed)

SpecHttpStop == InitHttp /\ [][NextHttpStop]_vars

-----------------------------------------------------------------------------
(* Properties of createCommand, under SpecCmd *)

(* The number of "%s" occurrences of a template, by position: "%s" cannot  *)
(* overlap itself, so every position where it starts is an occurrence.     *)
NumPlaceholders(t) ==
    Cardinality({i \in 1..(Len(t) - 1) : t[i] = "%" /\ t[i + 1] = "s"})

(* The template with its k-th "%s" occurrence replaced by the k-th argument *)
(* and every other character kept.                                          *)
RECURSIVE Substitute(_, _, _, _)
Substitute(t, args, i, k) ==
    IF i > Len(t) THEN <<>>
    ELSE IF i < Len(t) /\ t[i] = "%" /\ t[i + 1] = "s"
         THEN args[k] \o Substitute(t, args, i + 2, k + 1)
         ELSE <<t[i]>> \o Substitute(t, args, i + 1, k)

ArityError(x, y) ==
    <<"mismatch between command definition args=">> \o Itoa(x)
        \o <<" and number of args=">> \o Itoa(y)

PlaceholderError(x, y) ==
    <<"mismatch between placeholders (", "%", "s", ")=">> \o Itoa(x)
        \o <<" and number of args=">> \o Itoa(y)

(* C1: whenever the argument count, the declared count and the number of   *)
(* "%s" occurrences agree, createCommand returns no error and the template *)
(* with the i-th placeholder replaced by the i-th argument, nothing else   *)
(* changed, whatever other "%" sequences the template holds.               *)
C1_RenderSubstitutesInOrder ==
    (/\ cpc = "done"
     /\ Len(m.Args) = Len(c.Args)
     /\ NumPlaceholders(c.Command) = Len(c.Args))
    => (/\ ret.err = nil
        /\ ret.str = Substitute(c.Command, m.Args, 1, 1))

(* C2: whenever the argument count differs from the declared count,        *)
(* createCommand returns the empty string and exactly the arity error with *)
(* X the declared count and Y the argument count, whatever the template.   *)
C2_ArityErrorFirst ==
    (cpc = "done" /\ Len(m.Args) # Len(c.Args))
    => (/\ ret.str = <<>>
        /\ ret.err = ArityError(Len(c.Args), Len(m.Args)))

(* An arity mismatch on a template whose placeholder count is wrong too. *)
C2_Witness ==
    /\ cpc = "done"
    /\ Len(m.Args) = 2
    /\ Len(c.Args) = 1
    /\ NumPlaceholders(c.Command) = 0
    /\ ret.err = ArityError(1, 2)

(* C3: whenever the argument count equals the declared count and the       *)
(* number of "%s" occurrences differs from it, createCommand returns the   *)
(* empty string (nothing substituted) and exactly the placeholder error    *)
(* with X the placeholder count and Y the declared count.                  *)
C3_PlaceholderError ==
    (/\ cpc = "done"
     /\ Len(m.Args) = Len(c.Args)
     /\ NumPlaceholders(c.Command) # Len(c.Args))
    => (/\ ret.str = <<>>
        /\ ret.err = PlaceholderError(NumPlaceholders(c.Command), Len(c.Args)))

(* Two placeholders in the template, one declared and supplied argument. *)
C3_Witness ==
    /\ cpc = "done"
    /\ Len(m.Args) = 1
    /\ Len(c.Args) = 1
    /\ NumPlaceholders(c.Command) = 2
    /\ ret.err = PlaceholderError(2, 1)
    /\ ret.str = <<>>

(* C4: with no declared parameter, no argument and no "%s" in the         *)
(* template, createCommand returns the template unmodified, literal "%"   *)
(* characters included.                                                    *)
C4_ZeroArgsTemplateUnmodified ==
    (/\ cpc = "done"
     /\ Len(c.Args) = 0
     /\ Len(m.Args) = 0
     /\ NumPlaceholders(c.Command) = 0)
    => (ret.err = nil /\ ret.str = c.Command)

(* A template with "%%" and "%d" comes back as it is. *)
C4_Witness ==
    /\ cpc = "done"
    /\ Len(c.Args) = 0
    /\ Len(m.Args) = 0
    /\ c.Command = <<"%", "%", "%", "d">>
    /\ ret = [str |-> <<"%", "%", "%", "d">>, err |-> nil]

-----------------------------------------------------------------------------
(* Properties of the dispatcher, under Spec *)

(* The calls made while the n-th received message was being handled. *)
SendsFor(n) == {k \in DOMAIN sendLog : sendLog[k].n = n}
ExecsFor(n) == {k \in DOMAIN execLog : execLog[k].n = n}

(* The poller has finished the iteration of the n-th received message. *)
Finished(n) == n < Len(taken) \/ pc \in {"range", "done"}

IsCommand(n) == taken[n].Type = Command
Known(n) == taken[n].Command \in DOMAIN commands
Rendered(n) == createCommand(commands[taken[n].Command], taken[n])

(* C5: for every Command message taken from the stream the poller makes    *)
(* exactly one SendMessage call, replying to that same message, on every   *)
(* branch; never more than one while the iteration is under way.           *)
C5_OneReplyPerCommand ==
    \A n \in DOMAIN taken :
        IsCommand(n) =>
            /\ Cardinality(SendsFor(n)) <= 1
            /\ Finished(n) => Cardinality(SendsFor(n)) = 1
            /\ \A k \in SendsFor(n) : sendLog[k].replyTo = taken[n]

(* An unknown command and an executed one, each answered to its sender. *)
C5_Witness ==
    /\ Len(taken) = 2
    /\ Len(sendLog) = 2
    /\ pc = "range"
    /\ taken[1].Command = <<"unknown">>
    /\ taken[2].Command = <<"noargs">>
    /\ taken[2].Type = Command
    /\ sendLog[1].replyTo.Source = "+111"
    /\ sendLog[2].replyTo.Source = "+222"
    /\ Len(execLog) = 1

(* C6: a message that is not a Command causes no executor call and no      *)
(* SendMessage call, and the poller goes on to the next message.           *)
C6_NonCommandSkipped ==
    \A n \in DOMAIN taken :
        ~IsCommand(n) =>
            /\ SendsFor(n) = {}
            /\ ExecsFor(n) = {}
            /\ Finished(n)

(* A Chat message naming a known command is skipped, the next is handled. *)
C6_Witness ==
    /\ Len(taken) = 2
    /\ taken[1].Type = Chat
    /\ taken[1].Command = <<"noargs">>
    /\ taken[2].Type = Command
    /\ SendsFor(1) = {}
    /\ SendsFor(2) # {}

(* C7: for a Command message whose name is not in the table the reply is   *)
(* "Command not supported" and the executor is not invoked.                *)
C7_UnknownCommandReply ==
    \A n \in DOMAIN taken :
        (IsCommand(n) /\ ~Known(n)) =>
            /\ ExecsFor(n) = {}
            /\ \A k \in SendsFor(n) : sendLog[k].message = <<"Command not supported">>
            /\ Finished(n) => SendsFor(n) # {}

C7_Witness ==
    /\ Len(taken) >= 1
    /\ taken[1].Command = <<"unknown">>
    /\ Len(sendLog) >= 1
    /\ sendLog[1].message = <<"Command not supported">>

(* C8: for a Command message in the table for which createCommand fails    *)
(* the reply is "Command formatting failed: " followed by the error text,  *)
(* and the executor is not invoked.                                        *)
C8_FormattingFailureReply ==
    \A n \in DOMAIN taken :
        (IsCommand(n) /\ Known(n) /\ Rendered(n).err # nil) =>
            /\ ExecsFor(n) = {}
            /\ \A k \in SendsFor(n) :
                  sendLog[k].message =
                      <<"Command formatting failed: ">> \o Rendered(n).err
            /\ Finished(n) => SendsFor(n) # {}

(* Both validation errors have been reported. *)
C8_Witness ==
    /\ Len(sendLog) = 2
    /\ sendLog[1].message = <<"Command formatting failed: ">> \o ArityError(1, 0)
    /\ sendLog[2].message = <<"Command formatting failed: ">> \o PlaceholderError(0, 1)

(* C9: for a Command message that renders, the executor is invoked exactly *)
(* once, with the rendered string; the reply is the executor's output when *)
(* it succeeds and "Command <rendered> failed: <error>" when it fails; the *)
(* poller stops only on a closed and drained stream.                       *)
C9_ExecutorOnceAndReply ==
    /\ \A n \in DOMAIN taken :
          (IsCommand(n) /\ Known(n) /\ Rendered(n).err = nil) =>
              /\ Cardinality(ExecsFor(n)) <= 1
              /\ (n < Len(taken) \/ pc # "exec") => Cardinality(ExecsFor(n)) = 1
              /\ \A j \in ExecsFor(n) :
                    /\ execLog[j].command = Rendered(n).str
                    /\ \A k \in SendsFor(n) :
                          sendLog[k].message =
                              IF execLog[j].err = nil
                              THEN execLog[j].out
                              ELSE <<"Command ">> \o Rendered(n).str
                                       \o <<" failed: ">> \o execLog[j].err
              /\ Finished(n) => SendsFor(n) # {}
    /\ pc = "done" => (closed /\ ch = <<>>)

(* A failed execution is reported and the next command still runs. *)
C9_Witness ==
    /\ Len(execLog) = 2
    /\ Len(sendLog) = 2
    /\ execLog[1].command = <<"echo", " ", "hello">>
    /\ execLog[1].err # nil
    /\ sendLog[1].message =
           <<"Command ", "echo", " ", "hello", " failed: ", "exec error">>
    /\ execLog[2].err = nil
    /\ sendLog[2].message = <<"ok">>

(* C10: when SendMessage returns an error the poller does not send again   *)
(* for that message, does not stop, and goes on to the next message as     *)
(* after a successful send.                                                *)
C10_SendErrorIgnored ==
    /\ [](/\ \A n \in DOMAIN taken :
               (\E k \in SendsFor(n) : sendLog[k].err # nil) =>
                   /\ Cardinality(SendsFor(n)) = 1
                   /\ Finished(n)
          /\ pc = "done" => (closed /\ ch = <<>>)
          /\ pc = "send" => SendsFor(Len(taken)) = {})
    /\ [][Len(sendLog') > Len(sendLog) =>
             /\ pc' = "range"
             /\ UNCHANGED <<ch, closed, update, fmtCommand, msg, taken,
                            execLog>>]_vars

(* After a failed send the next command is received, run and answered. *)
C10_Witness ==
    /\ Len(sendLog) = 2
    /\ sendLog[1].err # nil
    /\ sendLog[2].n = 2
    /\ Len(execLog) >= 1
    /\ execLog[Len(execLog)].n = 2

-----------------------------------------------------------------------------
(* Properties of the adapters' receive loops with the dispatcher, under    *)
(* SpecBot (safety) and SpecBotFair (progress)                             *)

(* C11: once the context is cancelled, the receive loop eventually has     *)
(* closed its transport and its channel and has returned, and the          *)
(* dispatcher eventually has left its range loop; from every reachable     *)
(* state, the loop waiting in Decode or in a send on a full channel        *)
(* included.                                                               *)
C11_CancelStopsEverything ==
    ctxDone ~> (connClosed /\ closed /\ loc = "exited" /\ pc = "done")

(* cancelled while the loop is blocked on the full channel *)
C11_Witness ==
    /\ ctxDone
    /\ ~connClosed
    /\ loc = "send"
    /\ Len(ch) = ChanCap

(* C12: the dispatcher is Running (pc in "range", "exec", "send") and then *)
(* Stopped (pc = "done").  It is Stopped only with the channel closed and  *)
(* empty, every message the receive loop delivered taken and, if it is a   *)
(* command, replied to; once Stopped it stays Stopped and takes, runs and  *)
(* sends nothing more.                                                     *)
C12_RunningThenStopped ==
    /\ [](pc = "done" =>
            /\ closed
            /\ ch = <<>>
            /\ Len(taken) = Len(classified)
            /\ \A n \in DOMAIN taken :
                   /\ taken[n] = classified[n].m
                   /\ IsCommand(n) => Cardinality(SendsFor(n)) = 1)
    /\ [][pc = "done" =>
              UNCHANGED <<pc, ch, update, taken, execLog, sendLog>>]_vars

C12_Witness ==
    /\ pc = "done"
    /\ Len(taken) >= 2
    /\ Len(sendLog) >= 1

(* The messages that left the receive loop's classification, in the order  *)
(* they are in on their way: taken by the dispatcher, in the channel, held *)
(* by the loop for its send.                                               *)
OnTheWay ==
    taken \o ch \o (IF loc = "send" THEN <<pending>> ELSE <<>>)

(* the message the adapter makes of the k-th object of the transport *)
MessageOf(k) ==
    IF provider = "signal"
    THEN Classify(frames[k].rpc).m
    ELSE parseTelegramMessage(frames[k])

(* C13: the messages are delivered and processed in the order in which    *)
(* the transport emitted their frames or updates: the delivered messages   *)
(* belong to frames of increasing position, and what the dispatcher has    *)
(* taken, followed by what is queued and what the loop is sending, is      *)
(* that same sequence; so the processed messages are a prefix of it, with  *)
(* nothing reordered, duplicated or skipped.                               *)
C13_DeliveredInTransportOrder ==
    /\ \A i, j \in DOMAIN classified :
           i < j => classified[i].f < classified[j].f
    /\ \A i \in DOMAIN classified :
           /\ classified[i].f \in DOMAIN frames
           /\ classified[i].m = MessageOf(classified[i].f)
    /\ Len(OnTheWay) = Len(classified)
    /\ \A i \in DOMAIN classified : OnTheWay[i] = classified[i].m

(* two different messages processed, the first one first *)
C13_Witness ==
    /\ Len(taken) >= 2
    /\ taken[1] # taken[2]
    /\ taken[1] = classified[1].m
    /\ pc = "range"

(* a "receive" notification whose sender is not in the allow-list *)
Unauthorised(fr) ==
    /\ fr.rpc.Method = "receive"
    /\ fr.rpc.Params.ok
    /\ ~Contains(sources, fr.rpc.Params.sourceNumber)

(* C14: for a "receive" notification whose sourceNumber is not in the      *)
(* configured sources, parseMessage returns an error and nothing is        *)
(* delivered: no message of that frame or of that sender is ever on the    *)
(* way to the dispatcher, and no reply goes to that sender; the step that  *)
(* reads such a frame leaves the channel as it is and takes the loop back  *)
(* to its select for the next frame.                                       *)
C14_UnauthorisedSourceDropped ==
    /\ [](provider = "signal" =>
            \A k \in DOMAIN frames :
                Unauthorised(frames[k]) =>
                    /\ parseMessage(frames[k].rpc, sources).err # nil
                    /\ \A i \in DOMAIN classified : classified[i].f # k
                    /\ \A i \in DOMAIN OnTheWay :
                           OnTheWay[i].Source # frames[k].rpc.Params.sourceNumber
                    /\ \A i \in DOMAIN sendLog :
                           taken[sendLog[i].n].Source
                               # frames[k].rpc.Params.sourceNumber)
    /\ [][(provider = "signal" /\ Len(frames') > Len(frames)
               /\ Unauthorised(frames'[Len(frames')])) =>
              (loc' = "select" /\ UNCHANGED <<ch, closed, classified>>)]_vars

(* after a notification of an unknown sender, the next one is delivered *)
C14_Witness ==
    /\ provider = "signal"
    /\ Len(frames) = 2
    /\ Unauthorised(frames[1])
    /\ Len(taken) = 1
    /\ classified[1].f = 2
    /\ Len(sendLog) = 1

(* the k-th object read was delivered as a message of the given kind *)
DeliveredAs(k, type) ==
    \E i \in DOMAIN classified :
        classified[i].f = k /\ classified[i].m.Type = type

(* C16, as stated: an object is delivered as a Response exactly when it   *)
(* carries a non-null result, no method and no error.                      *)
C16_ResponseIffResultNoMethod ==
    provider = "signal" =>
        \A k \in DOMAIN frames :
            DeliveredAs(k, Response) <=>
                (/\ ~frames[k].rpc.Result.nil
                 /\ frames[k].rpc.Method = ""
                 /\ ~frames[k].rpc.Error)

(* C16, amended: an object is delivered as a Response exactly when it     *)
(* carries no error, is not a "receive" notification with params, and     *)
(* carries a non-null result that decodes as a send result, whatever its  *)
(* method; the message then keeps the result as its raw text.             *)
C16_ResponseIffResultDecodes ==
    provider = "signal" =>
        \A k \in DOMAIN frames :
            LET rpc == frames[k].rpc IN
            /\ DeliveredAs(k, Response) <=>
                   (/\ ~rpc.Error
                    /\ ~(~rpc.Params.nil /\ rpc.Method = "receive")
                    /\ ~rpc.Result.nil
                    /\ rpc.Result.ok)
            /\ \A i \in DOMAIN classified :
                   (classified[i].f = k /\ classified[i].m.Type = Response) =>
                       classified[i].m.Raw = <<rpc.Result>>

(* an object with a method and a result reached the dispatcher as a       *)
(* Response                                                                *)
C16_Witness ==
    /\ provider = "signal"
    /\ Len(frames) >= 1
    /\ frames[1].rpc.Method = "other"
    /\ DeliveredAs(1, Response)
    /\ Len(taken) >= 1
    /\ taken[1].Type = Response

(* C17: an object that carries a non-null error is dropped, whatever     *)
(* else it carries: no delivered message belongs to it, and the step that *)
(* reads it leaves the channel as it is and takes the loop back to its    *)
(* select for the next object.                                            *)
C17_RpcErrorDropped ==
    /\ [](provider = "signal" =>
            \A k \in DOMAIN frames :
                frames[k].rpc.Error =>
                    \A i \in DOMAIN classified : classified[i].f # k)
    /\ [][(provider = "signal" /\ Len(frames') > Len(frames)
               /\ frames'[Len(frames')].rpc.Error) =>
              (loc' = "select" /\ UNCHANGED <<ch, closed, classified>>)]_vars

(* an error object that is also a complete notification with a result is *)
(* dropped, and the object after it is delivered                          *)
C17_Witness ==
    /\ provider = "signal"
    /\ Len(frames) = 2
    /\ frames[1].rpc.Error
    /\ frames[1].rpc.Method = "receive"
    /\ ~frames[1].rpc.Params.nil
    /\ ~frames[1].rpc.Result.nil
    /\ Len(classified) = 1
    /\ classified[1].f = 2
    /\ Len(taken) = 1

(* Decode has failed with io.EOF or net.ErrClosed *)
CleanEnd == provider = "signal" /\ decErr \in {"eof", "closed"}

(* C18: a Decode that fails with end-of-stream or "connection closed"     *)
(* ends the receive loop and closes the channel: the failing step         *)
(* delivers nothing, returns and closes; from then on the loop is gone,   *)
(* the channel is closed and only drains, and nothing more is read or     *)
(* delivered.                                                             *)
C18_CleanEndTerminates ==
    /\ [](CleanEnd =>
            /\ loc = "exited"
            /\ closed
            /\ \A k \in DOMAIN frames :
                   frames[k].err \in {"eof", "closed"} =>
                       \A i \in DOMAIN classified : classified[i].f # k)
    /\ [][(~CleanEnd /\ CleanEnd') =>
              (loc' = "exited" /\ closed' /\ UNCHANGED <<ch, classified>>)]_vars
    /\ [][CleanEnd =>
              (/\ UNCHANGED <<loc, closed, frames, classified, pending>>
               /\ Len(ch') <= Len(ch))]_vars

(* the peer closed the socket after one delivered message; the dispatcher *)
(* drained the channel and stopped                                        *)
C18_Witness ==
    /\ provider = "signal"
    /\ decErr = "eof"
    /\ loc = "exited"
    /\ closed
    /\ Len(classified) = 1
    /\ Len(taken) = 1
    /\ pc = "done"

(* a Decode failure that is neither io.EOF nor net.ErrClosed *)
OtherFailure(err) == err \in {"type", "syntax", "unexpected_eof", "reset"}

(* C19: a Decode that fails with an error other than end-of-stream or     *)
(* "connection closed" delivers no message for the failed frame, and the  *)
(* loop goes on to the next frame: the step takes it back to its select   *)
(* with a decoder that reads on, so that later frames are delivered.      *)
C19_DecodeFailureSkipsFrame ==
    /\ [](provider = "signal" =>
            /\ \A k \in DOMAIN frames :
                   OtherFailure(frames[k].err) =>
                       \A i \in DOMAIN classified : classified[i].f # k
            /\ decErr \notin {"syntax"})
    /\ [][(provider = "signal" /\ Len(frames') > Len(frames)
               /\ OtherFailure(frames'[Len(frames')].err)) =>
              (loc' = "select" /\ UNCHANGED <<ch, closed, classified>>)]_vars

(* the connection is lost: every read fails, and not with a clean end *)
ConnectionLost ==
    provider = "signal" /\ decErr \in {"unexpected_eof", "reset"}

(* C20: once the connection is lost the receive loop eventually returns   *)
(* and closes the channel, without the context being cancelled, and the   *)
(* dispatcher eventually stops.                                           *)
C20_ConnectionLossTerminates ==
    (ConnectionLost /\ ~ctxDone)
        ~> (ctxDone \/ (loc = "exited" /\ closed /\ pc = "done"))

-----------------------------------------------------------------------------
(* Properties of parseMessage, under SpecParse *)

(* The tokens of a text: its maximal runs of characters other than the     *)
(* space, in order.                                                        *)
RECURSIVE Tokens(_)
Tokens(s) ==
    IF s = <<>> THEN <<>>
    ELSE IF Head(s) = " " THEN Tokens(Tail(s))
    ELSE LET n == CHOOSE k \in 1..Len(s) :
                      /\ \A j \in 1..k : s[j] # " "
                      /\ k = Len(s) \/ s[k + 1] = " "
         IN  <<SubSeq(s, 1, n)>> \o Tokens(SubSeq(s, n + 1, Len(s)))

(* parseMessage has been called on a notification of an allow-listed sender *)
ParsedAllowed ==
    /\ ppc = "done"
    /\ pfn = "signal"
    /\ pin.Params.ok
    /\ Contains(sources, pin.Params.sourceNumber)

(* C15: for an allow-listed sender, a body whose first token starts with   *)
(* "/" gives a Command message whose command is that token without the     *)
(* "/" and whose args are the remaining tokens in order; a body whose      *)
(* first token does not start with "/" gives a Chat message that keeps     *)
(* the full text.                                                          *)
C15_CommandOrChat ==
    ParsedAllowed =>
        LET body == pin.Params.message
            toks == Tokens(body)
            mm   == pout.message
        IN  /\ pout.err = nil
            /\ toks # <<>> =>
                   IF HasPrefix(toks[1], "/")
                   THEN /\ mm.Type = Command
                        /\ mm.Command = Tail(toks[1])
                        /\ mm.Args = Tail(toks)
                   ELSE /\ mm.Type = Chat
                        /\ Len(mm.Raw) = 1
                        /\ mm.Raw[1].message = body

(* parseTelegramMessage has been called on an update *)
ParsedUpdate == ppc = "done" /\ pfn = "telegram"

(* the text is marked as a command: its first entity is a bot command that *)
(* starts the text                                                         *)
Marked(u) == u.Entity.type = "bot_command" /\ u.Entity.offset = 0

(* the leading token of a marked text, the part the mark covers *)
LeadingToken(u) == SubSeq(u.Text, 1, u.Entity.length)

(* a token without its markers: the "/" in front and a "@name" behind *)
RECURSIVE UpToAt(_)
UpToAt(s) ==
    IF s = <<>> \/ Head(s) = "@" THEN <<>> ELSE <<Head(s)>> \o UpToAt(Tail(s))

StripMarker(tok) == UpToAt(Tail(tok))

(* what follows the leading token and the character that ends it *)
Remainder(u) == SubSeq(u.Text, u.Entity.length + 2, Len(u.Text))

(* C22: an update without a message gives an Update message with every     *)
(* other field empty; a text marked as a command gives a Command message   *)
(* whose command is the leading token without its markers and whose args   *)
(* are the remainder split on spaces, none when there is no remainder; any *)
(* other text gives a Chat message with empty command and no args; with a  *)
(* message, raw is the full text and the routing key is the chat id.       *)
C22_UpdateClassified ==
    ParsedUpdate =>
        LET mm == pout.message IN
        /\ pout.err = nil
        /\ IF ~pin.hasMessage
           THEN mm = Message(Update, <<>>, <<>>, "")
           ELSE /\ mm.ChatID = pin.ChatID
                /\ mm.Raw = pin.Text
                /\ mm.Source = ""
                /\ IF Marked(pin)
                   THEN /\ mm.Type = Command
                        /\ mm.Command = StripMarker(LeadingToken(pin))
                        /\ mm.Args = IF Remainder(pin) = <<>> THEN <<>>
                                     ELSE Split(Remainder(pin), " ")
                   ELSE /\ mm.Type = Chat
                        /\ mm.Command = <<>>
                        /\ mm.Args = <<>>

(* a command with an argument has been parsed *)
C22_Witness ==
    /\ ParsedUpdate
    /\ pin.Text = <<"/", "a", " ", "a">>
    /\ pout.message.Type = Command
    /\ pout.message.Command = <<"a">>
    /\ pout.message.Args = << <<"a">> >>
    /\ pout.message.ChatID = 8

(* The whitespace-delimited tokens of a text: its maximal runs of           *)
(* characters other than the space and the tab, in order.                  *)
Whitespace == {" ", "\t"}

RECURSIVE Fields(_)
Fields(s) ==
    IF s = <<>> THEN <<>>
    ELSE IF Head(s) \in Whitespace THEN Fields(Tail(s))
    ELSE LET n == CHOOSE k \in 1..Len(s) :
                      /\ \A j \in 1..k : s[j] \notin Whitespace
                      /\ k = Len(s) \/ s[k + 1] \in Whitespace
         IN  <<SubSeq(s, 1, n)>> \o Fields(SubSeq(s, n + 1, Len(s)))

(* either adapter has produced a Command message *)
ParsedCommand ==
    /\ ppc = "done"
    /\ pout.err = nil
    /\ pout.message.Type = Command

(* the text of the message that was parsed *)
ParsedText == IF pfn = "signal" THEN pin.Params.message ELSE pin.Text

(* C23: a Command message of either adapter has as many args as there are  *)
(* whitespace-delimited tokens after the command word in the text, and no  *)
(* arg is the empty string.                                                *)
C23_ArgsAreTokens ==
    ParsedCommand =>
        /\ Len(pout.message.Args) = Len(Fields(ParsedText)) - 1
        /\ \A i \in 1..Len(pout.message.Args) : pout.message.Args[i] # <<>>

-----------------------------------------------------------------------------
(* Properties of the request IDs, under SpecID *)

(* the callers between id := s.nextID and s.nextID++ *)
Incrementing == {p \in Callers : spc[p] = "incr"}

(* the callers that hold an id of the call they are in *)
HoldingID == {p \in Callers : spc[p] \in {"incr", "unlock", "encode", "write"}}

(* C21: the ids come from a counter that starts at 1: the k-th id handed   *)
(* out is k, no two calls under way hold the same id, every id held has    *)
(* been handed out, and when n ids have been handed out and their          *)
(* increments done the counter is n + 1, whatever Encode returned.         *)
C21_SequentialRequestIDs ==
    /\ \A k \in DOMAIN issued : issued[k] = k
    /\ \A p, q \in HoldingID : p # q => sid[p] # sid[q]
    /\ \A p \in HoldingID : sid[p] \in DOMAIN issued
    /\ Cardinality(Incrementing) <= 1
    /\ nextID = Len(issued) + 1 - Cardinality(Incrementing)

(* three ids handed out, a failed write among the requests, and a caller   *)
(* waiting for the mutex that another caller holds                         *)
C21_Witness ==
    /\ Len(issued) = 3
    /\ nextID = 4
    /\ \E err \in encLog : err # nil
    /\ mu = 2
    /\ spc[2] = "unlock"
    /\ spc[1] = "lock"

-----------------------------------------------------------------------------
(* Properties of the HTTP server, under SpecHttp *)

(* the request is for /cmd/{name} and the auth gate has decided on it *)
AuthDecided ==
    hpc \in {"next", "exec", "write", "done"} /\ HasPrefix(hreq.path, "/cmd/")

(* the request has passed the gate: the wrapped handler has been called *)
Passed == AuthDecided /\ hlog.next = 1

(* the handler has returned for a request that passed the gate *)
Answered == Passed /\ hpc = "done"

(* the {name} of the request *)
CmdName == Tail(hreq.path)

KnownCommand == CmdName \in DOMAIN httpCommands

(* the declared parameter names of the command *)
Declared == httpCommands[CmdName].Args

(* the value the query string gives a parameter: the first one under its   *)
(* name, empty when there is none                                          *)
ValueOf(name) ==
    LET at == {i \in 1..Len(hreq.query) : hreq.query[i].k = name}
    IN  IF at = {} THEN <<>>
        ELSE hreq.query[CHOOSE i \in at : \A j \in at : i <= j].v

(* the declared parameters the query string gives no value *)
NotSupplied == {i \in 1..Len(Declared) : ValueOf(Declared[i]) = <<>>}

(* the argument list in the order of the declared names *)
DeclaredOrder == [i \in 1..Len(Declared) |-> ValueOf(Declared[i])]

(* what createCommand makes of the command and that argument list *)
RenderedCommand ==
    createCommand(httpCommands[CmdName],
                  Message(Command, CmdName, DeclaredOrder, ""))

(* C24: for a request of a known command that supplies every declared      *)
(* parameter and whose command renders, createCommand is called once with  *)
(* the values in the order of the declared names, the executor is called   *)
(* exactly once, with the rendered string, and when it succeeds and the    *)
(* body can be written the answer is 200, text/plain, with the executor's  *)
(* output as body.                                                         *)
C24_RendersAndExecutesOnce ==
    (Passed /\ hpc \in {"write", "done"} /\ KnownCommand /\ NotSupplied = {}
        /\ RenderedCommand.err = nil) =>
        /\ Len(hlog.create) = 1
        /\ hlog.create[1].msg.Args = DeclaredOrder
        /\ hlog.exec = <<RenderedCommand.str>>
        /\ (hpc = "done" /\ hres.err = nil /\ ~hw.broken) =>
               /\ hw.status = 200
               /\ hw.ctype = "text/plain"
               /\ hw.body = hres.out

(* /cmd/greet?times=2&name=world has been answered *)
C24_Witness ==
    /\ Answered
    /\ CmdName = <<"greet">>
    /\ hreq.query = <<[k |-> <<"times">>, v |-> <<"2">>],
                      [k |-> <<"name">>, v |-> <<"world">>]>>
    /\ hlog.exec = <<<<"echo Hello ", "world", " ", "2", " times">>>>
    /\ hw.status = 200
    /\ hw.body = <<"ok">>

(* C25: the answer names the first stage that fails: no command name gives *)
(* 400 "no command specified"; an unknown command gives 404, whatever the  *)
(* query; a command that does not render gives 400 with createCommand's    *)
(* error text; the executor is not called in any of these cases.           *)
C25_FirstFailingStage ==
    Answered =>
        /\ CmdName = <<>> =>
               /\ hw.status = 400
               /\ hw.body = <<"no command specified", "\n">>
               /\ hlog.exec = <<>>
        /\ (CmdName # <<>> /\ ~KnownCommand) =>
               /\ hw.status = 404
               /\ hw.body = <<"unknown command ", "\"">> \o CmdName \o <<"\"", "\n">>
               /\ hlog.exec = <<>>
        /\ (KnownCommand /\ NotSupplied = {} /\ RenderedCommand.err # nil) =>
               /\ hw.status = 400
               /\ hw.body = RenderedCommand.err \o <<"\n">>
               /\ hlog.exec = <<>>

(* /cmd/bad?name=world, whose template has two placeholders for one        *)
(* declared parameter, has been answered                                   *)
C25_Witness ==
    /\ Answered
    /\ CmdName = <<"bad">>
    /\ ValueOf(<<"name">>) = <<"world">>
    /\ Len(hlog.create) = 1
    /\ hw.status = 400
    /\ hlog.exec = <<>>

(* C26: for a known command with a declared parameter the query string     *)
(* gives no value, the answer is 400 and names the first such parameter in *)
(* declared order, and neither createCommand nor the executor is called;   *)
(* every createCommand call of the handler has as many args as the command *)
(* declares.                                                               *)
C26_MissingParameter ==
    /\ (Answered /\ KnownCommand /\ NotSupplied # {}) =>
           LET first == CHOOSE i \in NotSupplied : \A j \in NotSupplied : i <= j
           IN  /\ hw.status = 400
               /\ hw.body = <<"missing required query parameter ", "\"">>
                                \o Declared[first] \o <<"\"", "\n">>
               /\ hlog.create = <<>>
               /\ hlog.exec = <<>>
    /\ \A i \in 1..Len(hlog.create) :
           Len(hlog.create[i].msg.Args) = Len(hlog.create[i].def.Args)

(* /cmd/greet without any parameter has been answered *)
C26_Witness ==
    /\ Answered
    /\ CmdName = <<"greet">>
    /\ NotSupplied = {1, 2}
    /\ hw.status = 400
    /\ hw.body = <<"missing required query parameter ", "\"", "name", "\"", "\n">>

(* the executor has failed for the request *)
ExecutorFailed == Passed /\ hpc \in {"write", "done"} /\ hres.err # nil

(* C27: once the executor has failed, the response has status 400, the     *)
(* Content-Type of the error and the executor's error text with a newline  *)
(* as body, right after the error is written and when the handler returns. *)
C27_ExecutorErrorIsWholeResponse ==
    ExecutorFailed =>
        /\ hw.status = 400
        /\ hw.ctype = "text/plain; charset=utf-8"
        /\ hw.body = hres.err \o <<"\n">>

(* the handler has returned after the executor failed: it has set the      *)
(* Content-Type of the header map and printed the output                   *)
C27_Witness ==
    /\ ExecutorFailed
    /\ hpc = "done"
    /\ hw.hdr = "text/plain"
    /\ hw.body = <<"exec error", "\n">>

(* C28: with a token, a request passes the gate exactly when its           *)
(* Authorization header is "Token " and the token; any other request gets  *)
(* 401 with "unauthorized" in the body and the wrapped handler is not      *)
(* called; without a token every request passes.                           *)
C28_AuthGate ==
    AuthDecided =>
        /\ hsrv.gate # <<>> =>
               (Passed <=> hreq.auth = <<"Token ">> \o hsrv.gate)
        /\ (hsrv.gate # <<>> /\ ~Passed) =>
               /\ hw.status = 401
               /\ \E i \in 1..Len(hw.body) : hw.body[i] = "unauthorized"
               /\ hlog = NoCalls
        /\ hsrv.gate = <<>> => Passed

(* the bare token has been refused *)
C28_Witness ==
    /\ AuthDecided
    /\ hsrv.gate = <<"secrettoken">>
    /\ hreq.auth = <<"secrettoken">>
    /\ hw.status = 401
    /\ hlog.next = 0

(* C29: when HTTP_TOKEN_AUTH is set to a token, the gate of the running    *)
(* server lets a request pass exactly when its Authorization header is     *)
(* "Token " and that token, whatever httpd.authToken is.                   *)
C29_EnvironmentTokenOverrides ==
    (AuthDecided /\ hcfg.env.exists /\ hcfg.env.value # <<>>) =>
        (Passed <=> hreq.auth = <<"Token ">> \o hcfg.env.value)

-----------------------------------------------------------------------------
(* Properties of the adapter's output stream, under SpecBotFair *)

(* C30: the stream never holds more than 10 messages; only the receive     *)
(* loop appends to it and only the dispatcher takes from it, at its head;  *)
(* while it is full the receive loop stays in its send with the message it *)
(* holds; every message that left the classification is taken by the       *)
(* dispatcher, in the channel or held for the send, and the k-th of them   *)
(* is eventually taken.                                                    *)
C30_BoundedLosslessQueue ==
    /\ [](Len(ch) <= ChanCap)
    /\ [][ch' # ch =>
             \/ loc = "send" /\ loc' # "send" /\ ch' = Append(ch, pending)
             \/ pc = "range" /\ ch # <<>> /\ ch' = Tail(ch)
                   /\ taken' = Append(taken, Head(ch))]_vars
    /\ [][(loc = "send" /\ Len(ch) = ChanCap) =>
             (loc' = "send" /\ pending' = pending
                 /\ classified' = classified)]_vars
    /\ [](Len(taken) + Len(ch) + (IF loc = "send" THEN 1 ELSE 0)
             = Len(classified))
    /\ \A k \in 1..BurstLen :
           (Len(classified) >= k) ~>
               (Len(taken) >= k /\ taken[k] = classified[k].m)

(* the receive loop waits in its send on the full channel while the        *)
(* dispatcher runs the first command                                       *)
C30_Witness ==
    /\ ~ctxDone
    /\ loc = "send"
    /\ Len(ch) = ChanCap
    /\ Len(taken) = 1
    /\ pc = "exec"

-----------------------------------------------------------------------------
(* Properties of the socket adapter's encoder, under SpecID *)

(* the callers inside s.enc.Encode *)
InEncode == {p \in Callers : spc[p] = "write"}

(* C31: at most one SendMessage call is inside enc.Encode at a time, and   *)
(* the requests are written to the socket in increasing order of their     *)
(* IDs.                                                                    *)
C31_EncoderExclusiveAndOrdered ==
    /\ [](Cardinality(InEncode) <= 1)
    /\ [][wire' # wire => wire' > wire]_vars

-----------------------------------------------------------------------------
(* Properties of the dispatcher with any client, under SpecMockFair *)

(* C32: once the context given to MessagingPoller is cancelled, the        *)
(* dispatcher eventually returns (wg.Done), whether or not the client      *)
(* closes its update channel.                                              *)
C32_CancelStopsPoller == ctxDone ~> (pc = "done")

-----------------------------------------------------------------------------
(* Properties of the polling adapter's receive loop, under SpecBot *)

(* C33: once the context is cancelled, the polling adapter's receive loop  *)
(* takes no further update from the subscription: none is parsed and made  *)
(* a message for the output stream.                                        *)
C33_NoUpdateAfterCancel ==
    [][(provider = "telegram" /\ ctxDone) =>
           UNCHANGED <<frames, classified>>]_vars

-----------------------------------------------------------------------------
(* Properties of the HTTP server's shutdown, under SpecHttpStop *)

(* C34: HttpServer does not return (wg.Done) after a cancellation before   *)
(* the Shutdown call has returned.                                         *)
C34_DoneAfterShutdownReturned ==
    hlife.serve = "closed" => hlife.shutdown = "returned"

-----------------------------------------------------------------------------
(* Properties of the replies and of the executor calls *)

(* the recipient of the "send" request that SendMessage builds for a reply *)
Recipient(send) == send.replyTo.Source

(* C35: with the socket adapter, the recipient of every "send" request the *)
(* dispatcher issues is a number of the configured sources, whatever       *)
(* frames have come in.                                                    *)
C35_RepliesToAllowListOnly ==
    provider = "signal" =>
        \A n \in DOMAIN sendLog : Contains(sources, Recipient(sendLog[n]))

(* a reply has gone out after a notification of a sender that is not in    *)
(* the sources and a command of one that is                                *)
C35_Witness ==
    /\ provider = "signal"
    /\ \E k \in DOMAIN frames : Unauthorised(frames[k])
    /\ Len(sendLog) >= 1
    /\ Recipient(sendLog[1]) = "+111"

(* C36: every string passed to the executor is the string of a successful  *)
(* createCommand call on the entry of the command table under the          *)
(* requested command name: for the dispatcher the name of the Command      *)
(* message being processed, for the HTTP handler the {name} of a request   *)
(* that has passed the auth gate.                                          *)
C36_ExecutorGetsRenderedCommandsOnly ==
    /\ \A j \in DOMAIN execLog :
           LET n == execLog[j].n IN
           /\ n \in DOMAIN taken
           /\ IsCommand(n)
           /\ Known(n)
           /\ Rendered(n).err = nil
           /\ execLog[j].command = Rendered(n).str
    /\ \A i \in DOMAIN hlog.exec :
           /\ Passed
           /\ KnownCommand
           /\ Len(hlog.create) = 1
           /\ hlog.create[1].def = httpCommands[CmdName]
           /\ hlog.create[1].msg.Command = CmdName
           /\ createCommand(hlog.create[1].def, hlog.create[1].msg).err = nil
           /\ hlog.exec[i] =
                  createCommand(hlog.create[1].def, hlog.create[1].msg).str

(* the executor has run the command of a request that carried the token    *)
(* the gate asks for                                                       *)
C36_Witness ==
    /\ hsrv.gate = <<"secrettoken">>
    /\ hreq.auth = <<"Token ", "secrettoken">>
    /\ CmdName = <<"testcmd">>
    /\ hlog.exec = <<<<"echo hello">>>>
    /\ hpc = "done"

(* the Command messages received before the one being processed *)
EarlierCommands == {n \in 1..(Len(taken) - 1) : IsCommand(n)}

(* the executor is being invoked: a call is added to execLog *)
ExecutorInvoked == execLog' # execLog

(* C37: the dispatcher handles messages one at a time: the executor is     *)
(* invoked for one message per step, the message taken last, and only      *)
(* once the SendMessage call replying to every earlier Command message     *)
(* has returned; executor calls and replies are in the order in which      *)
(* their commands were received.                                           *)
C37_OneMessageAtATime ==
    /\ [][ExecutorInvoked =>
             /\ pc = "exec"
             /\ Len(execLog') = Len(execLog) + 1
             /\ execLog'[Len(execLog')].n = Len(taken)
             /\ ExecsFor(Len(taken)) = {}
             /\ SendsFor(Len(taken)) = {}
             /\ \A n \in EarlierCommands : SendsFor(n) # {}]_vars
    /\ [](\A j, k \in DOMAIN execLog : j < k => execLog[j].n < execLog[k].n)
    /\ [](\A j, k \in DOMAIN sendLog : j < k => sendLog[j].n < sendLog[k].n)

(* two commands have run, each replied to, the second after the first *)
C37_Witness ==
    /\ Len(taken) = 2
    /\ Len(execLog) = 2
    /\ Len(sendLog) = 2
    /\ execLog[1].n = 1 /\ sendLog[1].n = 1
    /\ execLog[2].n = 2 /\ sendLog[2].n = 2
    /\ pc = "done"

(* the declared parameters the query string holds with an empty value *)
EmptyValued ==
    {i \in 1..Len(Declared) :
         /\ \E j \in 1..Len(hreq.query) : hreq.query[j].k = Declared[i]
         /\ ValueOf(Declared[i]) = <<>>}

(* the request without the parameter of this name *)
WithoutParam(name) ==
    [hreq EXCEPT !.query = SelectSeq(@, LAMBDA e : e.k # name)]

(* C38: a request for a known command whose query string holds a declared *)
(* parameter with an empty value is answered with 400 and "missing         *)
(* required query parameter", as the same request without that parameter   *)
(* is; createCommand and the executor are not called, and no argument       *)
(* list built from a query string holds an empty string.                   *)
C38_EmptyValueIsMissing ==
    /\ (Answered /\ KnownCommand /\ EmptyValued # {}) =>
           /\ hw.status = 400
           /\ hw.body[1] = "missing required query parameter "
           /\ hlog.create = <<>>
           /\ hlog.exec = <<>>
           /\ \A i \in EmptyValued :
                  LET absent == Validate(httpCommands, WithoutParam(Declared[i]))
                  IN  /\ hw.status = absent.code
                      /\ hw.body = absent.err \o <<"\n">>
    /\ \A i \in 1..Len(hlog.create) :
           \A j \in 1..Len(hlog.create[i].msg.Args) :
               hlog.create[i].msg.Args[j] # <<>>

(* /cmd/greet?name=&times=2 has been answered *)
C38_Witness ==
    /\ Answered
    /\ CmdName = <<"greet">>
    /\ hreq.query = <<[k |-> <<"name">>, v |-> <<>>],
                      [k |-> <<"times">>, v |-> <<"2">>]>>
    /\ hw.status = 400
    /\ hw.body = <<"missing required query parameter ", "\"", "name", "\"", "\n">>
    /\ hlog.exec = <<>>

====
